---- MODULE Spec2Model ----
(***************************************************************************)
(* River_Dot: river-bank erosion / deposition risk predictor.              *)
(*                                                                         *)
(* A model of the analytical core (src/src/js/analyzeRiver.js and          *)
(* src/src/js/lidarProcessor.js).  Every function of the core is an        *)
(* operator; every specification below draws the function's inputs from    *)
(* bounded sets in its initial condition and applies the function in an    *)
(* action.                                                                 *)
(*                                                                         *)
(* JavaScript values are tagged records (Undefined, Null, Num, Str, Bool). *)
(* Numbers are fixed-point integers; the unit of every field is stated     *)
(* where the field is introduced (thousandths unless said otherwise).      *)
(* Objects are functions from property names to values: a property that    *)
(* is absent is a name outside the DOMAIN.  JavaScript arrays are          *)
(* sequences: the element at JavaScript index i is the element i + 1.      *)
(***************************************************************************)
EXTENDS Integers, Sequences, FiniteSets, TLC

VARIABLES
    riskIndex,      \* getRiskCategory: the argument, in thousandths
    riskCategory,   \* getRiskCategory: the returned name, "" before the call
    geojsonData,    \* calculateRiskProfile: the collection (its features are mutated in place)
    dataBefore,     \* the collection as it was when the latest run started
    discharge,      \* the discharge of the latest run, m3/s
    prevDischarge,  \* the discharge of the run before it, 0 when there is none
    analysis,       \* the outcome of the latest run: "none", "returned", "threw"
    analysisResults, \* appState.analysisResults: what the latest run that returned has returned
    nearestTarget,  \* findNearestLidarPoint: the target <<lat, lon>>
    nearestArray,   \* findNearestLidarPoint: the array of points
    nearestResult,  \* findNearestLidarPoint: the position of the returned point, 0 for null, -1 before the call
    river,          \* mergeLidarWithRiver: the river collection (its features are mutated in place)
    lidar,          \* mergeLidarWithRiver: the LiDAR argument
    riverBefore,    \* the river collection as it was when the latest merge started
    mergeError,     \* the latest merge: "none" before any, "" when it returned, else what it threw
    csvText,        \* processLidarCSV: the text, a sequence of tokens (separators, white space, words)
    csvOutcome,     \* processLidarCSV: [kind, data, message], kind "none" before the call
    geoJsonData,    \* processLidarGeoJSON: the argument
    geoOutcome,     \* processLidarGeoJSON: [kind, data, message], kind "none" before the call
    validateArray,  \* validateLidarData: the argument
    validateOutcome,\* validateLidarData: [kind, result], kind "none" before the call
    statsData,      \* getAnalysisStatistics: the argument
    statsOutcome,   \* getAnalysisStatistics: [kind, stats], kind "none" before the call
    depthArgs,      \* <<discharge, channelWidth, manningN, baseSlope>> of the latest calculateFlowDepth call
    depthResult,    \* what it returned (-1: not called)
    depthArgsBefore,\* the arguments of the call before it
    depthResultBefore,\* what that call returned (-1: none)
    indexArgs,      \* <<shearStress, adjustedCriticalShear, bankHeight>> of a calculateRiskIndex call
    indexResult,    \* what the call returned (-1: not called yet)
    appData,        \* [current, results, default]: appState.currentGeoJSON, appState.analysisResults, DEFAULT_GEOJSON
    appLidar,       \* appState.lidarData
    appDischarge,   \* the value of the discharge input, m3/s
    appPending,     \* the file reads of river uploads in flight, in the order they were started
    appStarted,     \* the number of river uploads started
    appAccepted,    \* the river uploads whose read has completed and whose file was accepted
    appMergedFrom,  \* the LiDAR array of the latest mergeLidarWithRiver call of handleMergeLidar
    appCleared,     \* whether the latest event was handleClearData
    appEvents,      \* the number of events handled since initializeApp
    appExported,    \* what the latest export wrote: "none", "current" or "stale" results
    styleData,      \* the collection performAnalysis analyses and displays
    styleDischarge, \* the discharge of the run, m3/s
    styleLayer      \* the style of each feature of the river layer, <<>> before the run

catVars == <<riskIndex, riskCategory>>

riskVars == <<geojsonData, dataBefore, discharge, prevDischarge, analysis, analysisResults>>

nearestVars == <<nearestTarget, nearestArray, nearestResult>>

mergeVars == <<river, lidar, riverBefore, mergeError>>

csvVars == <<csvText, csvOutcome>>

geoVars == <<geoJsonData, geoOutcome>>

validateVars == <<validateArray, validateOutcome>>

statsVars == <<statsData, statsOutcome>>

depthVars == <<depthArgs, depthResult, depthArgsBefore, depthResultBefore>>

indexVars == <<indexArgs, indexResult>>

appVars == <<appData, appLidar, appDischarge, appPending, appStarted, appAccepted, appMergedFrom, appCleared, appEvents, appExported>>

styleVars == <<styleData, styleDischarge, styleLayer>>

vars == <<catVars, riskVars, nearestVars, mergeVars, csvVars, geoVars, validateVars, statsVars, depthVars, indexVars, appVars, styleVars>>

(***************************************************************************)
(* JavaScript values                                                       *)
(***************************************************************************)
Undefined == [t |-> "undefined"]

Null == [t |-> "null"]

Num(n) == [t |-> "num", n |-> n]

Str(s) == [t |-> "str", s |-> s]

Bool(b) == [t |-> "bool", b |-> b]

\* An object: o is the function from its property names to their values.
Obj(o) == [t |-> "obj", o |-> o]

\* An array: a is the sequence of its elements.
Arr(a) == [t |-> "arr", a |-> a]

\* ToBoolean: what `if (v)`, `!v` and `v || w` test.
Truthy(v) ==
    CASE v.t = "num"  -> v.n # 0
      [] v.t = "str"  -> v.s # ""
      [] v.t = "bool" -> v.b
      [] v.t = "obj"  -> TRUE
      [] v.t = "arr"  -> TRUE
      [] OTHER        -> FALSE

\* a || b
Or_Nullish(a, b) == IF a \in {Undefined, Null} THEN b ELSE a

Or(a, b) == IF Truthy(a) THEN a ELSE b

\* o[k] of an object: undefined when the property is absent.
Get(o, k) == IF k \in DOMAIN o THEN o[k] ELSE Undefined

\* o[k] = v (as a new value of the object).
Put(o, k, v) == [x \in (DOMAIN o) \cup {k} |-> IF x = k THEN v ELSE o[x]]

\* { ...a, ...b }: the properties of b override those of a.
Spread(a, b) == [x \in (DOMAIN a) \cup (DOMAIN b) |-> IF x \in DOMAIN b THEN b[x] ELSE a[x]]

\* The object with no property.
EmptyObj == [x \in {} |-> Undefined]

NaN == [t |-> "nan"]

Infinity == [t |-> "inf"]

(***************************************************************************)
(* analyzeRiver.js: getRiskCategory                                        *)
(***************************************************************************)
\* The thresholds of getRiskCategory, in thousandths.
HighErosionMin == 1500

MediumErosionMin == 1100

HighDepositionMax == 600

MediumDepositionMax == 900

getRiskCategory_GE(ri) ==
    IF ri >= HighErosionMin THEN "High Erosion"
    ELSE IF ri > MediumErosionMin THEN "Medium Erosion"
    ELSE IF ri < HighDepositionMax THEN "High Deposition"
    ELSE IF ri < MediumDepositionMax THEN "Medium Deposition"
    ELSE "Stable"

\* ri: the risk index in thousandths.
getRiskCategory(ri) ==
    IF ri > HighErosionMin THEN "High Erosion"
    ELSE IF ri > MediumErosionMin THEN "Medium Erosion"
    ELSE IF ri < HighDepositionMax THEN "High Deposition"
    ELSE IF ri < MediumDepositionMax THEN "Medium Deposition"
    ELSE "Stable"

(***************************************************************************)
(* Exact arithmetic on naturals beyond 32 bits: a natural is the sequence  *)
(* of its base-10000 digits, least significant first, without leading      *)
(* zeros.  It carries the products of the hydraulic formulas, so that      *)
(* Math.pow and Math.sqrt are the floor, at the thousandth, of the real    *)
(* value the formula denotes.                                              *)
(***************************************************************************)
Base == 10000

RECURSIVE BigFromInt(_)
BigFromInt(n) == IF n = 0 THEN <<>> ELSE <<n % Base>> \o BigFromInt(n \div Base)

RECURSIVE BigMulCarry(_, _, _)
BigMulCarry(a, k, c) ==
    IF a = <<>> THEN BigFromInt(c)
    ELSE LET p == Head(a) * k + c
         IN  <<p % Base>> \o BigMulCarry(Tail(a), k, p \div Base)

\* a * k, for 0 <= k <= 200000
BigMul(a, k) == IF k = 0 THEN <<>> ELSE BigMulCarry(a, k, 0)

\* a * k^e
RECURSIVE BigMulPow(_, _, _)
BigMulPow(a, k, e) == IF e = 0 THEN a ELSE BigMulPow(BigMul(a, k), k, e - 1)

RECURSIVE BigLeqFrom(_, _, _)
BigLeqFrom(a, b, i) ==
    IF i = 0 THEN TRUE
    ELSE IF a[i] # b[i] THEN a[i] < b[i]
    ELSE BigLeqFrom(a, b, i - 1)

\* a <= b
BigLeq(a, b) ==
    IF Len(a) # Len(b) THEN Len(a) < Len(b) ELSE BigLeqFrom(a, b, Len(a))

\* a \div Base^k
BigShift(a, k) == IF Len(a) <= k THEN <<>> ELSE SubSeq(a, k + 1, Len(a))

RECURSIVE BigToInt(_)
BigToInt(a) == IF a = <<>> THEN 0 ELSE Head(a) + Base * BigToInt(Tail(a))

\* 10^(4k)
BigPow10000(k) == [i \in 1..(k + 1) |-> IF i = k + 1 THEN 1 ELSE 0]

\* The largest r in lo..hi with lhs * r^e <= rhs (lo is known to satisfy it).
RECURSIVE RootSearch(_, _, _, _, _)
RootSearch(lhs, rhs, e, lo, hi) ==
    IF lo = hi THEN lo
    ELSE LET mid == (lo + hi + 1) \div 2
         IN  IF BigLeq(BigMulPow(lhs, mid, e), rhs)
             THEN RootSearch(lhs, rhs, e, mid, hi)
             ELSE RootSearch(lhs, rhs, e, lo, mid - 1)

\* The largest value, in thousandths, a root of the hydraulic formulas is
\* searched up to (16.383 m, 16.383 m/s).
MaxRoot == 16383

\* parseFloat(x.toFixed(2)) of a non-negative x in thousandths: the nearest
\* hundredth, still counted in thousandths.
Round2(m) == ((m + 5) \div 10) * 10

(***************************************************************************)
(* analyzeRiver.js: the hydraulic formulas.                                *)
(* Units: discharge m3/s; channelWidth m; manningN, curvature, vegDensity, *)
(* bankHeight, gravity and every result in thousandths; baseSlope in       *)
(* millionths; waterDensity kg/m3.                                         *)
(***************************************************************************)
DefaultFlowDepth == 1500

calculateFlowDepth_DefaultWidth(q, channelWidth, manningN, baseSlope) ==
    IF baseSlope = 0 THEN DefaultFlowDepth
    ELSE RootSearch(BigMulPow(BigMulPow(<<1>>, 200, 6), baseSlope, 3),
                    BigMulPow(BigMul(BigPow10000(7), 100), q * manningN, 6),
                    10, 0, MaxRoot)

\* ((discharge * manningN) / (channelWidth * sqrt(baseSlope))) ^ 0.6, that is
\* the d with d^10 * channelWidth^6 * baseSlope^3 = (discharge * manningN)^6.
calculateFlowDepth(q, channelWidth, manningN, baseSlope) ==
    IF baseSlope = 0 THEN DefaultFlowDepth
    ELSE RootSearch(BigMulPow(BigMulPow(<<1>>, channelWidth, 6), baseSlope, 3),
                    BigMulPow(BigMul(BigPow10000(7), 100), q * manningN, 6),
                    10, 0, MaxRoot)

\* area / wettedPerimeter = w*d / (w + 2d) = d - 2d^2 / (w + 2d)
calculateHydraulicRadius(channelWidth, flowDepth) ==
    LET wetted == 1000 * channelWidth + 2 * flowDepth
    IN  flowDepth - ((2 * flowDepth * flowDepth + wetted - 1) \div wetted)

\* (1 / n) * R^(2/3) * S^(1/2): the v with v^6 * n^6 = R^4 * S^3
calculateVelocity(hydraulicRadius, manningN, baseSlope) ==
    RootSearch(BigMulPow(<<1>>, manningN, 6),
               BigMulPow(BigMulPow(BigMul(BigPow10000(1), 100), hydraulicRadius, 4),
                         baseSlope, 3),
               6, 0, MaxRoot)

\* waterDensity * gravity * R * S * curvature
calculateShearStress(hydraulicRadius, baseSlope, curvature, waterDensity, gravity) ==
    BigToInt(BigShift(
        BigMul(BigMul(BigMul(BigMul(BigFromInt(waterDensity), gravity),
                             hydraulicRadius), baseSlope), curvature), 3))

\* 1 + vegDensity * 0.5
calculateVegetationResistance(vegDensity) == 1000 + vegDensity \div 2

calculateAdjustedCriticalShear(criticalShear, vegDensity) ==
    (criticalShear * calculateVegetationResistance(vegDensity)) \div 1000

\* The bank height, in thousandths of a metre, above which a risk index
\* above 1.0 is amplified, and the divisor of the amplification.
AmplifyBankHeight == 10000

AmplifyRiskIndex == 1000

AmplifyDivisor == 20000

\* The largest amplified risk index, in thousandths, the division is
\* searched up to.
MaxAmplified == 131071

\* shearStress / adjustedCriticalShear * (1 + (bankHeight - 10) / 20)
Amplified(shearStress, adjustedCriticalShear, bankHeight) ==
    RootSearch(BigMul(BigFromInt(adjustedCriticalShear), AmplifyDivisor),
               BigMul(BigMul(BigFromInt(shearStress), 1000),
                      AmplifyDivisor + bankHeight - AmplifyBankHeight),
               1, 0, MaxAmplified)

calculateRiskIndex_AlwaysAmplified(shearStress, adjustedCriticalShear, bankHeight) ==
    IF bankHeight > AmplifyBankHeight
    THEN Amplified(shearStress, adjustedCriticalShear, bankHeight)
    ELSE (shearStress * 1000) \div adjustedCriticalShear

\* The ratio is compared with 1.0 as it is, before any rounding:
\* shearStress / adjustedCriticalShear > 1.0.
calculateRiskIndex(shearStress, adjustedCriticalShear, bankHeight) ==
    IF /\ bankHeight > AmplifyBankHeight
       /\ shearStress * 1000 > adjustedCriticalShear * AmplifyRiskIndex
    THEN Amplified(shearStress, adjustedCriticalShear, bankHeight)
    ELSE (shearStress * 1000) \div adjustedCriticalShear

(***************************************************************************)
(* analyzeRiver.js: calculateSegmentRisk, calculateRiskProfile.            *)
(* A feature is a record [geometry, properties]; properties is Obj(o) or   *)
(* Undefined.  Segment properties: channel_width in m; base_slope in       *)
(* millionths; manning_n, critical_shear, curvature,                       *)
(* lidar_avg_bank_height_m and lidar_riparian_veg_density in thousandths.  *)
(***************************************************************************)
DefaultChannelWidth == 200

DefaultManningN == 35

DefaultBaseSlope == 500

DefaultCriticalShear == 2500

DefaultCurvature == 1000

DefaultBankHeight == 10000

DefaultVegDensity == 500

DefaultWaterDensity == 1000

DefaultGravity == 9810

\* HYDRODYNAMIC_PARAMS of constants.js (the members the risk model reads).
HYDRODYNAMIC_PARAMS == [waterDensity |-> Num(1000), gravity |-> Num(9810)]

\* The `calculated` block of a segment.
CalculatedBlock(channelWidth, manningN, baseSlope, criticalShear, curvature, bankHeight, vegDensity, waterDensity, gravity, q) ==
    LET flowDepth == calculateFlowDepth(q, channelWidth, manningN, baseSlope)
        hydraulicRadius == calculateHydraulicRadius(channelWidth, flowDepth)
        velocity == calculateVelocity(hydraulicRadius, manningN, baseSlope)
        shearStress == calculateShearStress(hydraulicRadius, baseSlope, curvature,
                                            waterDensity, gravity)
        vegetationResistance == calculateVegetationResistance(vegDensity)
        adjustedCriticalShear == calculateAdjustedCriticalShear(criticalShear, vegDensity)
        ri == calculateRiskIndex(shearStress, adjustedCriticalShear, bankHeight)
    IN  Obj([riskIndex |-> Num(Round2(ri)),
             riskCategory |-> Str(getRiskCategory(ri)),
             shearStress |-> Num(Round2(shearStress)),
             velocity |-> Num(Round2(velocity)),
             flowDepth |-> Num(Round2(flowDepth)),
             hydraulicRadius |-> Num(Round2(hydraulicRadius)),
             bankHeight |-> Num(bankHeight),
             vegDensity |-> Num(vegDensity),
             vegetationResistance |-> Num(Round2(vegetationResistance)),
             adjustedCriticalShear |-> Num(Round2(adjustedCriticalShear))])

calculateSegmentRisk_KeepsBlock(feature, q, params) ==
    IF feature.properties.t # "obj" THEN [feature |-> feature, threw |-> TRUE]
    ELSE
    LET props == feature.properties.o
        channelWidth == Or(Get(props, "channel_width"), Num(DefaultChannelWidth))
        manningN == Or(Get(props, "manning_n"), Num(DefaultManningN))
        baseSlope == Or(Get(props, "base_slope"), Num(DefaultBaseSlope))
        criticalShear == Or(Get(props, "critical_shear"), Num(DefaultCriticalShear))
        curvature == Or(Get(props, "curvature"), Num(DefaultCurvature))
        bankHeight == Or(Get(props, "lidar_avg_bank_height_m"), Num(DefaultBankHeight))
        vegDensity == Or(Get(props, "lidar_riparian_veg_density"), Num(DefaultVegDensity))
        waterDensity == Or(Get(params, "waterDensity"), Num(DefaultWaterDensity))
        gravity == Or(Get(params, "gravity"), Num(DefaultGravity))
    IN  IF ~Truthy(channelWidth) \/ channelWidth.n <= 0 \/ "calculated" \in DOMAIN props
        THEN [feature |-> feature, threw |-> FALSE]
        ELSE [feature |->
                 [feature EXCEPT !.properties =
                     Obj(Put(props, "calculated",
                             CalculatedBlock(channelWidth.n, manningN.n, baseSlope.n,
                                             criticalShear.n, curvature.n, bankHeight.n,
                                             vegDensity.n, waterDensity.n, gravity.n, q)))],
              threw |-> FALSE]

\* The feature after the call, and whether the call threw (a feature without
\* `properties` makes `props.channel_width` a TypeError).
calculateSegmentRisk(feature, q, params) ==
    IF feature.properties.t # "obj" THEN [feature |-> feature, threw |-> TRUE]
    ELSE
    LET props == feature.properties.o
        channelWidth == Or(Get(props, "channel_width"), Num(DefaultChannelWidth))
        manningN == Or(Get(props, "manning_n"), Num(DefaultManningN))
        baseSlope == Or(Get(props, "base_slope"), Num(DefaultBaseSlope))
        criticalShear == Or(Get(props, "critical_shear"), Num(DefaultCriticalShear))
        curvature == Or(Get(props, "curvature"), Num(DefaultCurvature))
        bankHeight == Or(Get(props, "lidar_avg_bank_height_m"), Num(DefaultBankHeight))
        vegDensity == Or(Get(props, "lidar_riparian_veg_density"), Num(DefaultVegDensity))
        waterDensity == Or(Get(params, "waterDensity"), Num(DefaultWaterDensity))
        gravity == Or(Get(params, "gravity"), Num(DefaultGravity))
    IN  IF ~Truthy(channelWidth) \/ channelWidth.n <= 0
        THEN [feature |-> feature, threw |-> FALSE]
        ELSE [feature |->
                 [feature EXCEPT !.properties =
                     Obj(Put(props, "calculated",
                             CalculatedBlock(channelWidth.n, manningN.n, baseSlope.n,
                                             criticalShear.n, curvature.n, bankHeight.n,
                                             vegDensity.n, waterDensity.n, gravity.n, q)))],
              threw |-> FALSE]

\* geojsonData.features.map(...) from feature i on: the features after the
\* loop, and whether it threw (the features after the one that throws are
\* not visited; those before it keep what was written to them).
RECURSIVE RiskMap(_, _, _, _)
RiskMap(features, i, q, params) ==
    IF i > Len(features) THEN [features |-> features, threw |-> FALSE]
    ELSE LET r == calculateSegmentRisk(features[i], q, params)
         IN  IF r.threw THEN [features |-> features, threw |-> TRUE]
             ELSE RiskMap([features EXCEPT ![i] = r.feature], i + 1, q, params)

calculateRiskProfile_FeaturesOnly(q, data, params) ==
    IF ~Truthy(data) \/ ~Truthy(Get(data.o, "features"))
    THEN [data |-> data, result |-> data, threw |-> FALSE]
    ELSE LET m == RiskMap(data.o["features"].a, 1, q, params)
         IN  [data |-> Obj(Put(data.o, "features", Arr(m.features))),
              result |-> IF m.threw THEN Undefined ELSE Obj([features |-> Arr(m.features)]),
              threw |-> m.threw]

\* data: the argument after the call (its features are mutated in place);
\* result: the returned value; threw: whether the call threw.
calculateRiskProfile(q, data, params) ==
    IF ~Truthy(data) \/ ~Truthy(Get(data.o, "features"))
    THEN [data |-> data, result |-> data, threw |-> FALSE]
    ELSE LET m == RiskMap(data.o["features"].a, 1, q, params)
             after == Obj(Put(data.o, "features", Arr(m.features)))
         IN  [data |-> after,
              result |-> IF m.threw THEN Undefined ELSE after,
              threw |-> m.threw]

(***************************************************************************)
(* analyzeRiver.js: getAnalysisStatistics                                  *)
(***************************************************************************)
NegativeInfinity == [t |-> "-inf"]

\* parseFloat((total / count).toFixed(2)) of a total in thousandths.
RoundedAverage(total, count) ==
    IF total >= 0 THEN ((2 * total + 10 * count) \div (20 * count)) * 10
    ELSE 0 - ((2 * (0 - total) + 10 * count) \div (20 * count)) * 10

\* Math.max(a, b) and Math.min(a, b) of a running extreme a and a number b.
MathMax(a, b) == IF a.t = "-inf" \/ (a.t = "num" /\ b.t = "num" /\ a.n < b.n) THEN b ELSE a

MathMin(a, b) == IF a.t = "inf" \/ (a.t = "num" /\ b.t = "num" /\ b.n < a.n) THEN b ELSE a

InitialStats_ZeroExtremes ==
    [totalSegments |-> 0, highErosion |-> 0, mediumErosion |-> 0, stable |-> 0,
     mediumDeposition |-> 0, highDeposition |-> 0, avgRiskIndex |-> Num(0),
     maxRiskIndex |-> Num(0), minRiskIndex |-> Num(0),
     avgVelocity |-> Num(0), avgShearStress |-> Num(0),
     totalRiskIndex |-> 0, totalVelocity |-> 0, totalShearStress |-> 0]

\* The stats object of lines 197-209.
InitialStats ==
    [totalSegments |-> 0, highErosion |-> 0, mediumErosion |-> 0, stable |-> 0,
     mediumDeposition |-> 0, highDeposition |-> 0, avgRiskIndex |-> Num(0),
     maxRiskIndex |-> NegativeInfinity, minRiskIndex |-> Infinity,
     avgVelocity |-> Num(0), avgShearStress |-> Num(0),
     totalRiskIndex |-> 0, totalVelocity |-> 0, totalShearStress |-> 0]

\* The switch of lines 222-238.
CountCategory(stats, category) ==
    CASE category = Str("High Erosion") -> [stats EXCEPT !.highErosion = @ + 1]
      [] category = Str("Medium Erosion") -> [stats EXCEPT !.mediumErosion = @ + 1]
      [] category = Str("Stable") -> [stats EXCEPT !.stable = @ + 1]
      [] category = Str("Medium Deposition") -> [stats EXCEPT !.mediumDeposition = @ + 1]
      [] category = Str("High Deposition") -> [stats EXCEPT !.highDeposition = @ + 1]
      [] OTHER -> stats

\* The forEach callback of lines 215-247 (the three running totals are kept
\* in the record with the stats).
AddSegment(stats, feature) ==
    IF ~Truthy(Get(feature.properties.o, "calculated")) THEN stats
    ELSE LET calc == feature.properties.o["calculated"].o
             counted == CountCategory([stats EXCEPT !.totalSegments = @ + 1], Get(calc, "riskCategory"))
         IN  [counted EXCEPT !.totalRiskIndex = @ + calc["riskIndex"].n,
                             !.totalVelocity = @ + calc["velocity"].n,
                             !.totalShearStress = @ + calc["shearStress"].n,
                             !.maxRiskIndex = MathMax(@, calc["riskIndex"]),
                             !.minRiskIndex = MathMin(@, calc["riskIndex"])]

\* geojsonData.features.forEach over the first n features.
RECURSIVE StatsScan(_, _)
StatsScan(features, n) ==
    IF n = 0 THEN InitialStats ELSE AddSegment(StatsScan(features, n - 1), features[n])

\* The returned object: null, or the stats with the averages of lines 249-253.
getAnalysisStatistics(data) ==
    IF ~Truthy(data) \/ ~Truthy(Get(data.o, "features")) THEN [kind |-> "null"]
    ELSE LET scan == StatsScan(data.o["features"].a, Len(data.o["features"].a))
             n == scan.totalSegments
         IN  [kind |-> "stats",
              stats |-> [k \in DOMAIN InitialStats \ {"totalRiskIndex", "totalVelocity", "totalShearStress"} |->
                  IF n = 0 THEN scan[k]
                  ELSE CASE k = "avgRiskIndex" -> Num(RoundedAverage(scan.totalRiskIndex, n))
                         [] k = "avgVelocity" -> Num(RoundedAverage(scan.totalVelocity, n))
                         [] k = "avgShearStress" -> Num(RoundedAverage(scan.totalShearStress, n))
                         [] OTHER -> scan[k]]]

(***************************************************************************)
(* lidarProcessor.js: calculateDistance, findNearestLidarPoint,            *)
(* getSegmentCenter, mergeLidarWithRiver.                                  *)
(* A LiDAR point is an object (a function from property names to values);  *)
(* latitudes, longitudes and coordinates are in thousandths of a degree.   *)
(***************************************************************************)
\* ToNumber, as the subtraction of calculateDistance applies it.
ToNumber(v) ==
    CASE v.t = "num" -> v
      [] v.t = "null" -> Num(0)
      [] v.t = "str" /\ v.s = "" -> Num(0)
      [] v.t = "bool" -> Num(IF v.b THEN 1 ELSE 0)
      [] OTHER -> NaN

\* The largest r in lo..hi with r * r <= n.
RECURSIVE SqrtSearch(_, _, _)
SqrtSearch(n, lo, hi) ==
    IF lo = hi THEN lo
    ELSE LET mid == (lo + hi + 1) \div 2
         IN  IF mid * mid <= n THEN SqrtSearch(n, mid, hi) ELSE SqrtSearch(n, lo, mid - 1)

\* Math.sqrt of a natural below 2^31.
Sqrt(n) == SqrtSearch(n, 0, 46340)

\* Math.sqrt(Math.pow(lat2 - lat1, 2) + Math.pow(lon2 - lon1, 2)), NaN when a
\* coordinate is not a number.
calculateDistance(lat1, lon1, lat2, lon2) ==
    LET a1 == ToNumber(lat1)
        o1 == ToNumber(lon1)
        a2 == ToNumber(lat2)
        o2 == ToNumber(lon2)
    IN  IF a1 = NaN \/ o1 = NaN \/ a2 = NaN \/ o2 = NaN THEN NaN
        ELSE LET dLat == (a2.n - a1.n) * (a2.n - a1.n)
                 dLon == (o2.n - o1.n) * (o2.n - o1.n)
             IN  Num(Sqrt(dLat + dLon))

LessThan_OrEqual(dist, minDistance) ==
    /\ dist.t = "num"
    /\ minDistance.t = "inf" \/ (minDistance.t = "num" /\ dist.n <= minDistance.n)

\* dist < minDistance
LessThan(dist, minDistance) ==
    /\ dist.t = "num"
    /\ minDistance.t = "inf" \/ (minDistance.t = "num" /\ dist.n < minDistance.n)

\* The forEach of findNearestLidarPoint from point i on; nearestPoint is the
\* position in lidarPoints (1-based) of the point held, 0 for null.
RECURSIVE NearestScan(_, _, _, _, _, _)
NearestScan(lat, lon, lidarPoints, i, nearestPoint, minDistance) ==
    IF i > Len(lidarPoints) THEN nearestPoint
    ELSE LET point == lidarPoints[i]
             dist == calculateDistance(lat, lon, Get(point, "latitude"), Get(point, "longitude"))
         IN  IF LessThan(dist, minDistance)
             THEN NearestScan(lat, lon, lidarPoints, i + 1, i, dist)
             ELSE NearestScan(lat, lon, lidarPoints, i + 1, nearestPoint, minDistance)

\* The position in lidarPoints (1-based) of the returned point, 0 for null.
findNearestLidarPoint(lat, lon, lidarPoints) ==
    NearestScan(lat, lon, lidarPoints, 1, 0, Infinity)

NoCenter == [kind |-> "null"]

CenterThrows == [kind |-> "throw"]

Center(coordinate) == [kind |-> "center", latitude |-> Num(coordinate[2]), longitude |-> Num(coordinate[1])]

MidIndex_Lower(coords) == IF Len(coords) = 0 THEN 1 ELSE (Len(coords) - 1) \div 2 + 1

\* Math.floor(coords.length / 2), as a 1-based position.
MidIndex(coords) == Len(coords) \div 2 + 1

getSegmentCenter_NoCoordinatesGuard(geometry) ==
    IF ~Truthy(geometry) THEN NoCenter
    ELSE IF ~Truthy(Get(geometry.o, "coordinates")) THEN CenterThrows
    ELSE LET coords == geometry.o["coordinates"].a
             type == Get(geometry.o, "type")
         IN  IF type = Str("LineString")
             THEN IF MidIndex(coords) > Len(coords) THEN CenterThrows
                  ELSE Center(coords[MidIndex(coords)])
             ELSE IF type = Str("MultiLineString")
             THEN IF MidIndex(coords) > Len(coords) THEN CenterThrows
                  ELSE LET line == coords[MidIndex(coords)]
                       IN  IF MidIndex(line) > Len(line) THEN CenterThrows
                           ELSE Center(line[MidIndex(line)])
             ELSE NoCenter

\* null, a center, or a TypeError (reading [1] of an element that is not there).
getSegmentCenter(geometry) ==
    IF ~Truthy(geometry) \/ ~Truthy(Get(geometry.o, "coordinates")) THEN NoCenter
    ELSE LET coords == geometry.o["coordinates"].a
             type == Get(geometry.o, "type")
         IN  IF type = Str("LineString")
             THEN IF MidIndex(coords) > Len(coords) THEN CenterThrows
                  ELSE Center(coords[MidIndex(coords)])
             ELSE IF type = Str("MultiLineString")
             THEN IF MidIndex(coords) > Len(coords) THEN CenterThrows
                  ELSE LET line == coords[MidIndex(coords)]
                       IN  IF MidIndex(line) > Len(line) THEN CenterThrows
                           ELSE Center(line[MidIndex(line)])
             ELSE NoCenter

MergedProperties_TruthyVeg(props, nearest) ==
    LET p1 == IF Truthy(Get(nearest, "bank_height_m"))
              THEN Put(props, "lidar_avg_bank_height_m", nearest["bank_height_m"])
              ELSE props
        p2 == IF Truthy(Get(nearest, "veg_density"))
              THEN Put(p1, "lidar_riparian_veg_density", nearest["veg_density"])
              ELSE p1
        p3 == IF Truthy(Get(nearest, "bank_slope"))
              THEN Put(p2, "lidar_bank_slope", nearest["bank_slope"])
              ELSE p2
        p4 == IF Truthy(Get(nearest, "roughness_coefficient"))
              THEN Put(p3, "manning_n", nearest["roughness_coefficient"])
              ELSE p3
    IN  Put(Put(p4, "lidar_merged", Bool(TRUE)), "lidar_source_id", Get(nearest, "segment_id"))

MergedProperties_DefinedHeight(props, nearest) ==
    LET p1 == IF Get(nearest, "bank_height_m") # Undefined
              THEN Put(props, "lidar_avg_bank_height_m", nearest["bank_height_m"])
              ELSE props
        p2 == IF Get(nearest, "veg_density") # Undefined /\ Get(nearest, "veg_density") # Null
              THEN Put(p1, "lidar_riparian_veg_density", nearest["veg_density"])
              ELSE p1
        p3 == IF Truthy(Get(nearest, "bank_slope"))
              THEN Put(p2, "lidar_bank_slope", nearest["bank_slope"])
              ELSE p2
        p4 == IF Truthy(Get(nearest, "roughness_coefficient"))
              THEN Put(p3, "manning_n", nearest["roughness_coefficient"])
              ELSE p3
    IN  Put(Put(p4, "lidar_merged", Bool(TRUE)), "lidar_source_id", Get(nearest, "segment_id"))

\* The properties of a matched feature after the writes of lines 194-212.
MergedProperties(props, nearest) ==
    LET p1 == IF Truthy(Get(nearest, "bank_height_m"))
              THEN Put(props, "lidar_avg_bank_height_m", nearest["bank_height_m"])
              ELSE props
        p2 == IF Get(nearest, "veg_density") # Undefined /\ Get(nearest, "veg_density") # Null
              THEN Put(p1, "lidar_riparian_veg_density", nearest["veg_density"])
              ELSE p1
        p3 == IF Truthy(Get(nearest, "bank_slope"))
              THEN Put(p2, "lidar_bank_slope", nearest["bank_slope"])
              ELSE p2
        p4 == IF Truthy(Get(nearest, "roughness_coefficient"))
              THEN Put(p3, "manning_n", nearest["roughness_coefficient"])
              ELSE p3
    IN  Put(Put(p4, "lidar_merged", Bool(TRUE)), "lidar_source_id", Get(nearest, "segment_id"))

\* The callback of riverGeoJSON.features.map: the feature after it, and
\* whether it threw (getSegmentCenter's TypeError, or a write to the
\* properties of a feature that has none).
MergeFeature(feature, lidarArray) ==
    LET center == getSegmentCenter(feature.geometry)
    IN  IF center.kind = "throw" THEN [feature |-> feature, threw |-> TRUE]
        ELSE IF center.kind = "null" THEN [feature |-> feature, threw |-> FALSE]
        ELSE LET nearest == findNearestLidarPoint(center.latitude, center.longitude, lidarArray)
             IN  IF nearest = 0 THEN [feature |-> feature, threw |-> FALSE]
                 ELSE IF feature.properties.t # "obj" THEN [feature |-> feature, threw |-> TRUE]
                 ELSE [feature |->
                          [feature EXCEPT !.properties =
                              Obj(MergedProperties(feature.properties.o, lidarArray[nearest]))],
                       threw |-> FALSE]

\* riverGeoJSON.features.map(...) from feature i on (see RiskMap).
RECURSIVE MergeMap(_, _, _)
MergeMap(features, i, lidarArray) ==
    IF i > Len(features) THEN [features |-> features, threw |-> FALSE]
    ELSE LET r == MergeFeature(features[i], lidarArray)
         IN  IF r.threw THEN [features |-> features, threw |-> TRUE]
             ELSE MergeMap([features EXCEPT ![i] = r.feature], i + 1, lidarArray)

mergeLidarWithRiver_NoEmptyCheck(riverGeoJSON, lidarArray) ==
    IF ~Truthy(riverGeoJSON) \/ ~Truthy(Get(riverGeoJSON.o, "features"))
    THEN [data |-> riverGeoJSON, error |-> "Invalid river GeoJSON"]
    ELSE IF lidarArray.t # "arr"
    THEN [data |-> riverGeoJSON, error |-> "Invalid LiDAR data array"]
    ELSE LET m == MergeMap(riverGeoJSON.o["features"].a, 1, lidarArray.a)
         IN  [data |-> Obj(Put(riverGeoJSON.o, "features", Arr(m.features))),
              error |-> IF m.threw THEN "TypeError" ELSE ""]

\* data: the river argument after the call (its features are mutated in
\* place); error: "" when the call returns, else what it throws.
mergeLidarWithRiver(riverGeoJSON, lidarArray) ==
    IF ~Truthy(riverGeoJSON) \/ ~Truthy(Get(riverGeoJSON.o, "features"))
    THEN [data |-> riverGeoJSON, error |-> "Invalid river GeoJSON"]
    ELSE IF lidarArray.t # "arr" \/ Len(lidarArray.a) = 0
    THEN [data |-> riverGeoJSON, error |-> "Invalid LiDAR data array"]
    ELSE LET m == MergeMap(riverGeoJSON.o["features"].a, 1, lidarArray.a)
         IN  [data |-> Obj(Put(riverGeoJSON.o, "features", Arr(m.features))),
              error |-> IF m.threw THEN "TypeError" ELSE ""]

(***************************************************************************)
(* lidarProcessor.js: parseCSVText, processLidarCSV                        *)
(*                                                                         *)
(* A string is a sequence of tokens: the separators "\n" and ",", white    *)
(* space, and words (runs of other characters).                            *)
(***************************************************************************)
\* The white space String.prototype.trim removes.
Whitespace == {" ", "\t", "\r"}

\* The string of a sequence of tokens.
RECURSIVE Concat(_)
Concat(tokens) == IF tokens = <<>> THEN "" ELSE tokens[1] \o Concat(Tail(tokens))

\* string.split(separator)
RECURSIVE Split(_, _)
Split(tokens, separator) ==
    IF \A i \in 1..Len(tokens) : tokens[i] # separator THEN <<tokens>>
    ELSE LET first == CHOOSE i \in 1..Len(tokens) :
                          tokens[i] = separator /\ \A j \in 1..(i - 1) : tokens[j] # separator
         IN  <<SubSeq(tokens, 1, first - 1)>> \o Split(SubSeq(tokens, first + 1, Len(tokens)), separator)

RECURSIVE TrimStart(_)
TrimStart(tokens) ==
    IF tokens # <<>> /\ tokens[1] \in Whitespace THEN TrimStart(Tail(tokens)) ELSE tokens

RECURSIVE TrimEnd(_)
TrimEnd(tokens) ==
    IF tokens # <<>> /\ tokens[Len(tokens)] \in Whitespace
    THEN TrimEnd(SubSeq(tokens, 1, Len(tokens) - 1))
    ELSE tokens

\* string.trim()
Trim(tokens) == TrimEnd(TrimStart(tokens))

\* line.split(',').map(v => v.trim()), as strings
Cells(line) == LET c == Split(line, ",") IN [i \in 1..Len(c) |-> Concat(Trim(c[i]))]

\* csvText.split('\n').filter(line => line.trim().length > 0)
NonEmptyLines(text) == SelectSeq(Split(text, "\n"), LAMBDA line : Len(Trim(line)) > 0)

\* Number(string) of the words of the texts, in thousandths: NaN unless the
\* whole string is a numeric literal (decimal, exponent or hexadecimal).
StringToNumber(string) ==
    CASE string = ""      -> Num(0)
      [] string = "0"     -> Num(0)
      [] string = "2"     -> Num(2000)
      [] string = "7"     -> Num(7000)
      [] string = "0.4"   -> Num(400)
      [] string = "10.5"  -> Num(10500)
      [] string = "20.5"  -> Num(20500)
      [] string = "-3.25" -> Num(0 - 3250)
      [] string = "1e1"   -> Num(10000)
      [] string = "0x10"  -> Num(16000)
      [] OTHER            -> NaN

\* parseFloat(string), in thousandths: the longest decimal prefix, so the
\* hexadecimal literal 0x10 gives 0.
parseFloat(string) ==
    IF string = "0x10" THEN Num(0)
    ELSE IF string \in {"", "s1", "s2", "s3", "s4", "north", "segment_id", "latitude",
                        "longitude", "veg_density", "name"} THEN NaN
    ELSE StringToNumber(string)

\* isNaN(value)
isNaN(value) ==
    CASE value.t = "str" -> StringToNumber(value.s) = NaN
      [] value.t = "num" -> FALSE
      [] OTHER           -> TRUE

\* Lines 53-57: a value that is a number and not '' becomes parseFloat of it.
CoerceValue(value) ==
    IF ~isNaN(value) /\ value # Str("") THEN parseFloat(value.s) ELSE value

\* values[idx] of the header.forEach callback (idx counted from 1).
ValueAt(values, idx) == IF idx <= Len(values) THEN Str(values[idx]) ELSE Undefined

\* The object header.forEach has filled after its first n columns.
RECURSIVE RowObject(_, _, _)
RowObject(header, values, n) ==
    IF n = 0 THEN EmptyObj
    ELSE Put(RowObject(header, values, n - 1), header[n], CoerceValue(ValueAt(values, n)))

RowKept_NoLongitude(obj) ==
    Truthy(Get(obj, "segment_id")) /\ Truthy(Get(obj, "latitude"))

\* obj.segment_id && obj.latitude && obj.longitude
RowKept(obj) ==
    Truthy(Get(obj, "segment_id")) /\ Truthy(Get(obj, "latitude")) /\ Truthy(Get(obj, "longitude"))

\* The loop of lines 45-64 from line i on.
RECURSIVE ParseRows(_, _, _)
ParseRows(header, lines, i) ==
    IF i > Len(lines) THEN <<>>
    ELSE LET obj == RowObject(header, Cells(lines[i]), Len(header))
         IN  (IF RowKept(obj) THEN <<obj>> ELSE <<>>) \o ParseRows(header, lines, i + 1)

requiredColumns == <<"segment_id", "latitude", "longitude">>

missingColumns_First(header) ==
    SubSeq(SelectSeq(requiredColumns, LAMBDA col : \A i \in 1..Len(header) : header[i] # col), 1, 1)

\* requiredColumns.filter(col => !header.includes(col))
missingColumns(header) ==
    SelectSeq(requiredColumns, LAMBDA col : \A i \in 1..Len(header) : header[i] # col)

\* array.join(', ')
RECURSIVE Join(_)
Join(strings) ==
    IF strings = <<>> THEN ""
    ELSE IF Len(strings) = 1 THEN strings[1]
    ELSE strings[1] \o ", " \o Join(Tail(strings))

Returned(data) == [kind |-> "returned", data |-> data, message |-> ""]

Threw(message) == [kind |-> "threw", data |-> <<>>, message |-> message]

parseCSVText(text) ==
    LET lines == NonEmptyLines(text)
    IN  IF Len(lines) < 2 THEN Threw("CSV must contain header and at least one data row")
        ELSE LET header == Cells(lines[1])
                 data == ParseRows(header, lines, 2)
             IN  IF Len(missingColumns(header)) > 0
                 THEN Threw("Missing required columns: " \o Join(missingColumns(header)))
                 ELSE IF Len(data) = 0 THEN Threw("No valid data rows found in CSV")
                 ELSE Returned(data)

processLidarCSV(text) ==
    LET r == parseCSVText(text)
    IN  IF r.kind = "threw" THEN Threw("Invalid LiDAR CSV format: " \o r.message) ELSE r

(***************************************************************************)
(* lidarProcessor.js: processLidarGeoJSON                                  *)
(***************************************************************************)
\* coords[i] (i counted from 0) of an array of numbers.
CoordinateAt(coords, i) == IF i + 1 <= Len(coords) THEN Num(coords[i + 1]) ELSE Undefined

\* The object the map callback returns for a feature (lines 98-110).
LidarPointOf(feature) ==
    LET props == IF Truthy(feature.properties) THEN feature.properties.o ELSE EmptyObj
        coords == IF feature.geometry.t = "obj" /\ Truthy(Get(feature.geometry.o, "coordinates"))
                  THEN feature.geometry.o["coordinates"].a
                  ELSE <<>>
    IN  Spread([segment_id |-> Or(Get(props, "segment_id"), Get(props, "id")),
                latitude |-> Or(CoordinateAt(coords, 1), Get(props, "latitude")),
                longitude |-> Or(CoordinateAt(coords, 0), Get(props, "longitude")),
                bank_height_m |-> Or(Get(props, "bank_height_m"), Get(props, "lidar_avg_bank_height_m")),
                veg_density |-> Or(Get(props, "veg_density"), Get(props, "lidar_riparian_veg_density")),
                bank_slope |-> Or(Get(props, "bank_slope"), Get(props, "lidar_bank_slope")),
                roughness_coefficient |-> Or(Get(props, "roughness_coefficient"), Get(props, "manning_n"))],
               props)

processLidarGeoJSON(data) ==
    IF data.t # "obj" THEN Threw("TypeError")
    ELSE IF ~Truthy(Get(data.o, "features")) \/ data.o["features"].t # "arr"
    THEN Threw("Invalid GeoJSON: features array required")
    ELSE Returned([i \in 1..Len(data.o["features"].a) |-> LidarPointOf(data.o["features"].a[i])])

(***************************************************************************)
(* lidarProcessor.js: validateLidarData                                    *)
(***************************************************************************)
\* The decimal digit d as a string.
Digit(d) ==
    CASE d = 0 -> "0" [] d = 1 -> "1" [] d = 2 -> "2" [] d = 3 -> "3" [] d = 4 -> "4"
      [] d = 5 -> "5" [] d = 6 -> "6" [] d = 7 -> "7" [] d = 8 -> "8" [] d = 9 -> "9"

\* String(n) of a natural number.
RECURSIVE NatToString(_)
NatToString(n) == IF n < 10 THEN Digit(n) ELSE NatToString(n \div 10) \o Digit(n % 10)

\* The decimals of a fraction of f thousandths, without trailing zeros.
FractionToString(f) ==
    IF f % 100 = 0 THEN Digit(f \div 100)
    ELSE IF f % 10 = 0 THEN Digit(f \div 100) \o Digit((f \div 10) % 10)
    ELSE Digit(f \div 100) \o Digit((f \div 10) % 10) \o Digit(f % 10)

\* String(value), as a template literal applies it.
StringOf(value) ==
    CASE value.t = "num" ->
            LET m == IF value.n < 0 THEN 0 - value.n ELSE value.n
            IN  (IF value.n < 0 THEN "-" ELSE "") \o NatToString(m \div 1000)
                \o (IF m % 1000 = 0 THEN "" ELSE "." \o FractionToString(m % 1000))
      [] value.t = "str" -> value.s
      [] value.t = "null" -> "null"
      [] value.t = "bool" -> IF value.b THEN "true" ELSE "false"
      [] OTHER -> "undefined"

\* a < b of two values: false when either is not a number after ToNumber.
Less(a, b) == ToNumber(a).t = "num" /\ ToNumber(b).t = "num" /\ ToNumber(a).n < ToNumber(b).n

ValidatePoint_VegWarning(point, idx) ==
    LET latitude == Get(point, "latitude")
        longitude == Get(point, "longitude")
        bank == Get(point, "bank_height_m")
        veg == Get(point, "veg_density")
        prefix == "Point " \o NatToString(idx) \o ": "
        error(message) == [errors |-> <<prefix \o message>>, warnings |-> <<>>, valid |-> FALSE]
        warnings == IF bank # Undefined /\ (Less(bank, Num(0)) \/ Less(Num(50000), bank))
                    THEN <<prefix \o "Bank height " \o StringOf(bank) \o "m seems unusual">>
                    ELSE <<>>
    IN  IF ~Truthy(latitude) \/ ~Truthy(longitude) THEN error("Missing latitude or longitude")
        ELSE IF Less(latitude, Num(0 - 90000)) \/ Less(Num(90000), latitude)
        THEN error("Invalid latitude " \o StringOf(latitude))
        ELSE IF Less(longitude, Num(0 - 180000)) \/ Less(Num(180000), longitude)
        THEN error("Invalid longitude " \o StringOf(longitude))
        ELSE IF veg # Undefined /\ (Less(veg, Num(0)) \/ Less(Num(1000), veg))
        THEN [errors |-> <<>>, warnings |-> warnings \o <<prefix \o "Vegetation density must be 0-1">>, valid |-> TRUE]
        ELSE [errors |-> <<>>, warnings |-> warnings, valid |-> TRUE]

\* The forEach callback of lines 245-278 on the point at index idx: what it
\* pushes to errors and to warnings, and whether it counts the point.
ValidatePoint(point, idx) ==
    LET latitude == Get(point, "latitude")
        longitude == Get(point, "longitude")
        bank == Get(point, "bank_height_m")
        veg == Get(point, "veg_density")
        prefix == "Point " \o NatToString(idx) \o ": "
        error(message) == [errors |-> <<prefix \o message>>, warnings |-> <<>>, valid |-> FALSE]
        warnings == IF bank # Undefined /\ (Less(bank, Num(0)) \/ Less(Num(50000), bank))
                    THEN <<prefix \o "Bank height " \o StringOf(bank) \o "m seems unusual">>
                    ELSE <<>>
    IN  IF ~Truthy(latitude) \/ ~Truthy(longitude) THEN error("Missing latitude or longitude")
        ELSE IF Less(latitude, Num(0 - 90000)) \/ Less(Num(90000), latitude)
        THEN error("Invalid latitude " \o StringOf(latitude))
        ELSE IF Less(longitude, Num(0 - 180000)) \/ Less(Num(180000), longitude)
        THEN error("Invalid longitude " \o StringOf(longitude))
        ELSE IF veg # Undefined /\ (Less(veg, Num(0)) \/ Less(Num(1000), veg))
        THEN [errors |-> <<prefix \o "Vegetation density must be 0-1">>, warnings |-> warnings, valid |-> FALSE]
        ELSE [errors |-> <<>>, warnings |-> warnings, valid |-> TRUE]

\* lidarArray.forEach of lines 245-278, from the point at index idx on.
RECURSIVE ValidateScan(_, _)
ValidateScan(lidarArray, idx) ==
    IF idx >= Len(lidarArray) THEN [errors |-> <<>>, warnings |-> <<>>, validPoints |-> 0]
    ELSE LET point == ValidatePoint(lidarArray[idx + 1], idx)
             rest == ValidateScan(lidarArray, idx + 1)
         IN  [errors |-> point.errors \o rest.errors,
              warnings |-> point.warnings \o rest.warnings,
              validPoints |-> (IF point.valid THEN 1 ELSE 0) + rest.validPoints]

\* The result object; totalPoints and validPoints are numbers (in
\* thousandths, as every number) or undefined.
ValidationResult(isValid, errors, warnings, totalPoints, validPoints) ==
    [isValid |-> isValid, errors |-> errors, warnings |-> warnings,
     totalPoints |-> totalPoints, validPoints |-> validPoints]

validateLidarData_NoErrors(lidarArray) ==
    IF lidarArray.t \in {"null", "undefined"} THEN [kind |-> "threw"]
    ELSE IF lidarArray.t # "arr"
    THEN [kind |-> "returned",
          result |-> ValidationResult(FALSE, <<"LiDAR array is empty or invalid">>, <<>>, Undefined, Undefined)]
    ELSE IF Len(lidarArray.a) = 0
    THEN [kind |-> "returned",
          result |-> ValidationResult(FALSE, <<"LiDAR array is empty or invalid">>, <<>>, Num(0), Undefined)]
    ELSE LET scan == ValidateScan(lidarArray.a, 0)
         IN  [kind |-> "returned",
              result |-> ValidationResult(scan.errors = <<>>,
                            scan.errors \o (IF scan.validPoints = 0 THEN <<"No valid LiDAR points found">> ELSE <<>>),
                            scan.warnings, Num(1000 * Len(lidarArray.a)), Num(1000 * scan.validPoints))]

\* kind "threw": reading .length of null or undefined at line 234.
validateLidarData(lidarArray) ==
    IF lidarArray.t \in {"null", "undefined"} THEN [kind |-> "threw"]
    ELSE IF lidarArray.t # "arr"
    THEN [kind |-> "returned",
          result |-> ValidationResult(FALSE, <<"LiDAR array is empty or invalid">>, <<>>, Undefined, Undefined)]
    ELSE IF Len(lidarArray.a) = 0
    THEN [kind |-> "returned",
          result |-> ValidationResult(FALSE, <<"LiDAR array is empty or invalid">>, <<>>, Num(0), Undefined)]
    ELSE LET scan == ValidateScan(lidarArray.a, 0)
         IN  [kind |-> "returned",
              result |-> ValidationResult(scan.validPoints # 0,
                            scan.errors \o (IF scan.validPoints = 0 THEN <<"No valid LiDAR points found">> ELSE <<>>),
                            scan.warnings, Num(1000 * Len(lidarArray.a)), Num(1000 * scan.validPoints))]

(***************************************************************************)
(* constants.js: the built-in dataset                                      *)
(***************************************************************************)
LineString(coordinates) == Obj([type |-> Str("LineString"), coordinates |-> Arr(coordinates)])

Segment(id, baseSlope, curvature, manningN, criticalShear, channelWidth, bankHeight, vegDensity, coordinates) ==
    [geometry |-> LineString(coordinates),
     properties |-> Obj([id |-> Num(id), base_slope |-> Num(baseSlope),
                         curvature |-> Num(curvature), manning_n |-> Num(manningN),
                         critical_shear |-> Num(criticalShear),
                         channel_width |-> Num(channelWidth),
                         lidar_avg_bank_height_m |-> Num(bankHeight),
                         lidar_riparian_veg_density |-> Num(vegDensity)])]

\* Coordinates are [lon, lat] pairs in thousandths of a degree.
DEFAULT_GEOJSON ==
    Obj([type |-> Str("FeatureCollection"),
         features |-> Arr(<<
            Segment(1, 2500, 1200, 50, 4500, 150, 8000, 800,
                    <<<<78290, 30100>>, <<78160, 29940>>>>),
            Segment(2, 100, 1800, 30, 2000, 600, 15000, 300,
                    <<<<80330, 26450>>, <<80900, 26100>>, <<81840, 25430>>>>),
            Segment(3, 80, 1500, 28, 1800, 700, 12000, 200,
                    <<<<82950, 25330>>, <<83010, 25280>>, <<83050, 25320>>>>),
            Segment(4, 50, 1100, 25, 1500, 1200, 5000, 600,
                    <<<<87920, 24810>>, <<88100, 24600>>, <<88350, 24400>>>>) >>)])

(***************************************************************************)
(* Specification SpecCategory: getRiskCategory on every risk index of a    *)
(* bounded grid around the four thresholds.                                *)
(***************************************************************************)
\* Risk indices -MaxRiskIndex .. MaxRiskIndex thousandths (the pipeline
\* yields negative indices for a negative curvature or critical shear).
MaxRiskIndex == 2000

RiskIndices == (0 - MaxRiskIndex) .. MaxRiskIndex

CatIdle == riskIndex = 0 /\ riskCategory = ""

RiskIdle ==
    /\ geojsonData = Null
    /\ dataBefore = Null
    /\ discharge = 0
    /\ prevDischarge = 0
    /\ analysis = "none"
    /\ analysisResults = Null

NearestIdle ==
    /\ nearestTarget = <<0, 0>>
    /\ nearestArray = <<>>
    /\ nearestResult = 0 - 1

MergeIdle ==
    /\ river = Null
    /\ lidar = Null
    /\ riverBefore = Null
    /\ mergeError = "none"

NoOutcome == [kind |-> "none", data |-> <<>>, message |-> ""]

CsvIdle == csvText = <<>> /\ csvOutcome = NoOutcome

GeoIdle == geoJsonData = Null /\ geoOutcome = NoOutcome

ValidateIdle == validateArray = Null /\ validateOutcome = [kind |-> "none"]

StatsIdle == statsData = Null /\ statsOutcome = [kind |-> "none"]

DepthIdle == depthArgs = <<0, 0, 0, 0>> /\ depthResult = -1 /\ depthArgsBefore = <<0, 0, 0, 0>> /\ depthResultBefore = -1

IndexIdle == indexArgs = <<0, 0, 0>> /\ indexResult = -1

AppIdle == appData = Null /\ appLidar = Null /\ appDischarge = 0 /\ appPending = <<>> /\ appStarted = 0 /\ appAccepted = {} /\ appMergedFrom = Null /\ appCleared = FALSE /\ appEvents = 0 /\ appExported = "none"

StyleIdle == styleData = Null /\ styleDischarge = 0 /\ styleLayer = <<>>

InitCategory ==
    /\ riskIndex \in RiskIndices
    /\ riskCategory = ""
    /\ RiskIdle
    /\ NearestIdle
    /\ MergeIdle
    /\ CsvIdle
    /\ GeoIdle
    /\ ValidateIdle
    /\ StatsIdle
    /\ DepthIdle
    /\ IndexIdle
    /\ AppIdle
    /\ StyleIdle

GetRiskCategory ==
    /\ riskCategory = ""
    /\ riskCategory' = getRiskCategory(riskIndex)
    /\ UNCHANGED riskIndex
    /\ UNCHANGED <<riskVars, nearestVars, mergeVars, csvVars, geoVars, validateVars, statsVars, depthVars, indexVars, appVars, styleVars>>

NextCategory == GetRiskCategory

SpecCategory == InitCategory /\ [][NextCategory]_vars

(***************************************************************************)
(* Specification SpecRisk: analysis runs (calculateRiskProfile) over a     *)
(* collection, one after the other, each at a discharge of its own.        *)
(***************************************************************************)
\* The first segment of the built-in dataset.
Ganga1 == DEFAULT_GEOJSON.o["features"].a[1]

WithProps(feature, o) == [feature EXCEPT !.properties = Obj(Spread(feature.properties.o, o))]

\* A `calculated` block left by an earlier analysis.
StaleCalculated == CalculatedBlock(150, 50, 2500, 4500, 1200, 8000, 800, 1000, 9810, 50)

\* The segments the collections are made of: the first built-in segment; a
\* segment with no hydraulic property (every default applies); channel
\* widths 0 and -50, the latter with a `calculated` block from an earlier
\* analysis; vegetation density and curvature 0; base slope 0; a tall bank
\* with properties that are not multiples of a hundredth; no `properties`.
RiskSegments ==
    << Ganga1,
       [geometry |-> Ganga1.geometry, properties |-> Obj([id |-> Num(5)])],
       WithProps(Ganga1, [channel_width |-> Num(0)]),
       WithProps(Ganga1, [channel_width |-> Num(0 - 50), calculated |-> StaleCalculated]),
       WithProps(Ganga1, [lidar_riparian_veg_density |-> Num(0), curvature |-> Num(0)]),
       WithProps(Ganga1, [base_slope |-> Num(0)]),
       WithProps(Ganga1, [lidar_avg_bank_height_m |-> Num(20125),
                          lidar_riparian_veg_density |-> Num(374)]),
       [geometry |-> Ganga1.geometry, properties |-> Undefined] >>

\* A collection holds at most MaxSegments of them (the built-in dataset apart).
MaxSegments == 2

\* The discharges of a run, m3/s.
Discharges == {300, 1000}

Increasing(f) == \A i \in DOMAIN f : \A j \in DOMAIN f : i < j => f[i] < f[j]

Selections(n, k) == {f \in [1..k -> 1..n] : Increasing(f)}

RiskCollections ==
    {Null, Obj([type |-> Str("FeatureCollection")]), DEFAULT_GEOJSON,
     Obj([type |-> Str("FeatureCollection"), name |-> Str("Ganga"), features |-> Arr(<<Ganga1>>)])}
    \cup {Obj([type |-> Str("FeatureCollection"),
               features |-> Arr([i \in DOMAIN f |-> RiskSegments[f[i]]])]) :
            f \in UNION {Selections(Len(RiskSegments), k) : k \in 0..MaxSegments}}

InitRisk ==
    /\ geojsonData \in RiskCollections
    /\ dataBefore = geojsonData
    /\ discharge = 0
    /\ prevDischarge = 0
    /\ analysis = "none"
    /\ analysisResults = Null
    /\ CatIdle
    /\ NearestIdle
    /\ MergeIdle
    /\ CsvIdle
    /\ GeoIdle
    /\ ValidateIdle
    /\ StatsIdle
    /\ DepthIdle
    /\ IndexIdle
    /\ AppIdle
    /\ StyleIdle

\* performAnalysis's call calculateRiskProfile(discharge, currentGeoJSON, HYDRODYNAMIC_PARAMS)
CalculateRiskProfile(q) ==
    LET r == calculateRiskProfile(q, geojsonData, HYDRODYNAMIC_PARAMS)
    IN  /\ geojsonData' = r.data
        /\ dataBefore' = geojsonData
        /\ prevDischarge' = discharge
        /\ discharge' = q
        /\ analysis' = IF r.threw THEN "threw" ELSE "returned"
        /\ analysisResults' = IF r.threw THEN analysisResults ELSE r.result
        /\ UNCHANGED <<catVars, nearestVars, mergeVars, csvVars, geoVars, validateVars, statsVars, depthVars, indexVars, appVars, styleVars>>

NextRisk == \E q \in Discharges : CalculateRiskProfile(q)

SpecRisk == InitRisk /\ [][NextRisk]_vars

(***************************************************************************)
(* Specification SpecNearest: findNearestLidarPoint on every nearestTarget and    *)
(* every array of at most NearestPoints points of a grid.                  *)
(***************************************************************************)
\* Latitudes and longitudes 0 .. GridMax degrees.
GridMax == 1

NearestPoints == 3

GridDegrees == {1000 * d : d \in 0..GridMax}

GridPoint(lat, lon) == [latitude |-> Num(lat), longitude |-> Num(lon)]

GridPointArrays ==
    UNION {[1..n -> {GridPoint(lat, lon) : lat \in GridDegrees, lon \in GridDegrees}] :
             n \in 0..NearestPoints}

InitNearest ==
    /\ nearestTarget \in GridDegrees \X GridDegrees
    /\ nearestArray \in GridPointArrays
    /\ nearestResult = 0 - 1
    /\ CatIdle
    /\ RiskIdle
    /\ MergeIdle
    /\ CsvIdle
    /\ GeoIdle
    /\ ValidateIdle
    /\ StatsIdle
    /\ DepthIdle
    /\ IndexIdle
    /\ AppIdle
    /\ StyleIdle

FindNearestLidarPoint ==
    /\ nearestResult = 0 - 1
    /\ nearestResult' = findNearestLidarPoint(Num(nearestTarget[1]), Num(nearestTarget[2]), nearestArray)
    /\ UNCHANGED <<nearestTarget, nearestArray>>
    /\ UNCHANGED <<catVars, riskVars, mergeVars, csvVars, geoVars, validateVars, statsVars, depthVars, indexVars, appVars, styleVars>>

NextNearest == FindNearestLidarPoint

SpecNearest == InitNearest /\ [][NextNearest]_vars

(***************************************************************************)
(* Specification SpecMerge: mergeLidarWithRiver, called any number of      *)
(* times on a river collection and a LiDAR argument.                       *)
(***************************************************************************)
\* Coordinates [lon, lat], thousandths of a degree.
PA == <<1000, 5000>>

PB == <<2000, 5000>>

PC == <<1000, 7000>>

PE == <<3000, 5000>>

Geometry(type, coordinates) == Obj([type |-> Str(type), coordinates |-> Arr(coordinates)])

\* Geometries: missing; without coordinates; a Point; LineStrings of 0 to 3
\* coordinates; MultiLineStrings of 0 to 2 lines, of 0 to 3 coordinates.
Geometries ==
    << Undefined,
       Obj([type |-> Str("LineString")]),
       Geometry("Point", PB),
       Geometry("LineString", <<>>),
       Geometry("LineString", <<PA>>),
       Geometry("LineString", <<PA, PB>>),
       Geometry("LineString", <<PC, PB, PA>>),
       Geometry("MultiLineString", <<>>),
       Geometry("MultiLineString", << <<>> >>),
       Geometry("MultiLineString", << <<PA, PE>> >>),
       Geometry("MultiLineString", << <<PA>>, <<PB, PC, PE>> >>) >>

\* The features of a river: every geometry, with properties that no merge
\* has written to, and a LineString without `properties`.
RiverFeatures ==
    {[geometry |-> Geometries[g], properties |-> Obj([id |-> Num(g)])] : g \in DOMAIN Geometries}
    \cup {[geometry |-> Geometry("LineString", <<PA, PB>>), properties |-> Undefined]}

\* A river holds at most MaxFeatures features, a LiDAR array at most MaxPoints points.
MaxFeatures == 2

MaxPoints == 2

River(features) == Obj([type |-> Str("FeatureCollection"), features |-> Arr(features)])

Rivers == {River(f) : f \in UNION {[1..n -> RiverFeatures] : n \in 0..MaxFeatures}}

\* The point at position i of a LiDAR array carries the segment_id i.
LidarAt(i, coordinate) ==
    [segment_id |-> Num(i), latitude |-> Num(coordinate[2]), longitude |-> Num(coordinate[1]),
     bank_height_m |-> Num(12000), veg_density |-> Num(400)]

LidarArrays ==
    {Arr([i \in DOMAIN c |-> LidarAt(i, c[i])]) :
        c \in UNION {[1..n -> {PA, PB, PE}] : n \in 0..MaxPoints}}

\* Arguments mergeLidarWithRiver rejects.
InvalidRivers == {Null, Undefined, Obj([type |-> Str("FeatureCollection")])}

InvalidLidars == {Null, Undefined, Obj(LidarAt(1, PB)), Arr(<<>>)}

\* One segment, with properties no merge has written to or with the
\* properties an earlier merge left, ...
AttributeFeatures ==
    {[geometry |-> Geometry("LineString", <<PA, PB>>), properties |-> Obj(o)] :
        o \in {[id |-> Num(1), manning_n |-> Num(50)],
               [id |-> Num(1), manning_n |-> Num(50), lidar_avg_bank_height_m |-> Num(8000),
                lidar_riparian_veg_density |-> Num(800), lidar_bank_slope |-> Num(30000),
                lidar_merged |-> Bool(TRUE), lidar_source_id |-> Str("old")]}}

Optional(name, values) == {EmptyObj} \cup {[x \in {name} |-> v] : v \in values}

\* ... and a point at its center whose optional attributes are each absent,
\* zero or positive (veg_density also null), after a farther point or before
\* a point at the same place.
AttributePoints ==
    {Spread(Spread(Spread(Spread(
        [segment_id |-> Str("s1"), latitude |-> Num(PB[2]), longitude |-> Num(PB[1])], h), v), b), r) :
        h \in Optional("bank_height_m", {Num(0), Num(12000)}),
        v \in Optional("veg_density", {Null, Num(0), Num(400)}),
        b \in Optional("bank_slope", {Num(0), Num(45000)}),
        r \in Optional("roughness_coefficient", {Num(0), Num(40)})}

OtherPoint(coordinate) ==
    [segment_id |-> Str("s2"), latitude |-> Num(coordinate[2]), longitude |-> Num(coordinate[1]),
     bank_height_m |-> Num(3000), veg_density |-> Num(100), bank_slope |-> Num(10000),
     roughness_coefficient |-> Num(20)]

AttributeArrays ==
    UNION {{Arr(<<p>>), Arr(<<OtherPoint(PC), p>>), Arr(<<p, OtherPoint(PB)>>),
            Arr(<<[segment_id |-> Str("s3")], p>>)} : p \in AttributePoints}

InitMerge ==
    /\ \/ river \in Rivers /\ lidar \in LidarArrays
       \/ river \in InvalidRivers /\ lidar \in InvalidLidars \cup {Arr(<<LidarAt(1, PB)>>)}
       \/ river \in Rivers /\ lidar \in InvalidLidars
       \/ river \in {River(<<f>>) : f \in AttributeFeatures} /\ lidar \in AttributeArrays
    /\ riverBefore = river
    /\ mergeError = "none"
    /\ CatIdle
    /\ RiskIdle
    /\ NearestIdle
    /\ CsvIdle
    /\ GeoIdle
    /\ ValidateIdle
    /\ StatsIdle
    /\ DepthIdle
    /\ IndexIdle
    /\ AppIdle
    /\ StyleIdle

\* handleMergeLidar's call mergeLidarWithRiver(currentGeoJSON, lidarData)
MergeLidarWithRiver ==
    LET r == mergeLidarWithRiver(river, lidar)
    IN  /\ river' = r.data
        /\ riverBefore' = river
        /\ mergeError' = r.error
        /\ UNCHANGED lidar
        /\ UNCHANGED <<catVars, riskVars, nearestVars, csvVars, geoVars, validateVars, statsVars, depthVars, indexVars, appVars, styleVars>>

NextMerge == MergeLidarWithRiver

SpecMerge == InitMerge /\ [][NextMerge]_vars

(***************************************************************************)
(* Specification SpecCsv: processLidarCSV applied to texts of up to        *)
(* MaxLines lines                                                          *)
(***************************************************************************)
MaxLines == 3

\* Lines: headers (in order, with white space and a carriage return, lacking
\* longitude, lacking all but latitude, reordered with a fourth column),
\* data rows (numeric, zero, empty, hexadecimal, non-numeric, short, long)
\* and blank lines.
CsvLines ==
    { <<"segment_id", ",", "latitude", ",", "longitude">>,
      <<" ", "segment_id", ",", "latitude", " ", ",", "longitude", "\r">>,
      <<"segment_id", ",", "latitude">>,
      <<"latitude", ",", "name">>,
      <<"longitude", ",", "veg_density", ",", "segment_id", ",", "latitude">>,
      <<"s1", ",", "10.5", ",", "20.5">>,
      <<"2", ",", " ", "10.5", ",", "0", "\r">>,
      <<",", "10.5", ",", "20.5">>,
      <<"s2", ",", "1e1", ",", "0x10">>,
      <<"s3", ",", "north", ",", "20.5">>,
      <<"s4", ",", "10.5">>,
      <<"7", ",", "-3.25", ",", "20.5", ",", "0.4">>,
      <<>>,
      <<" ", "\r">> }

\* lines.join('\n')
RECURSIVE JoinLines(_)
JoinLines(lines) ==
    IF lines = <<>> THEN <<>>
    ELSE IF Len(lines) = 1 THEN lines[1]
    ELSE lines[1] \o <<"\n">> \o JoinLines(Tail(lines))

CsvTexts == {JoinLines(l) : l \in UNION {[1..n -> CsvLines] : n \in 0..MaxLines}}

InitCsv ==
    /\ csvText \in CsvTexts
    /\ csvOutcome = NoOutcome
    /\ CatIdle
    /\ RiskIdle
    /\ NearestIdle
    /\ MergeIdle
    /\ GeoIdle
    /\ ValidateIdle
    /\ StatsIdle
    /\ DepthIdle
    /\ IndexIdle
    /\ AppIdle
    /\ StyleIdle

\* handleLidarCsvUpload's call processLidarCSV(content)
ProcessLidarCSV ==
    /\ csvOutcome = NoOutcome
    /\ csvOutcome' = processLidarCSV(csvText)
    /\ UNCHANGED csvText
    /\ UNCHANGED <<catVars, riskVars, nearestVars, mergeVars, geoVars, validateVars, statsVars, depthVars, indexVars, appVars, styleVars>>

NextCsv == ProcessLidarCSV

SpecCsv == InitCsv /\ [][NextCsv]_vars

(***************************************************************************)
(* Specification SpecGeo: processLidarGeoJSON applied to collections of    *)
(* up to MaxLidarFeatures features                                         *)
(***************************************************************************)
MaxLidarFeatures == 2

\* Geometries: missing, null, without coordinates, and Points of 0 to 2
\* coordinates, a zero longitude or latitude included.
LidarGeometries ==
    { Undefined, Null, Obj([type |-> Str("Point")]),
      Geometry("Point", <<>>), Geometry("Point", <<1000>>),
      Geometry("Point", <<1000, 5000>>), Geometry("Point", <<0, 5000>>),
      Geometry("Point", <<1000, 0>>) }

\* Properties: missing, empty, naming the point only, and carrying a
\* latitude and / or longitude of their own.
LidarProperties ==
    { Undefined, Obj(EmptyObj),
      Obj([segment_id |-> Str("s1"), veg_density |-> Num(0), lidar_riparian_veg_density |-> Num(800)]),
      Obj([id |-> Num(7), latitude |-> Num(6000), longitude |-> Num(2000)]),
      Obj([segment_id |-> Str("s2"), latitude |-> Num(6000)]),
      Obj([segment_id |-> Str("s3"), longitude |-> Num(2000), bank_height_m |-> Num(12000)]) }

LidarFeatures == {[geometry |-> g, properties |-> p] : g \in LidarGeometries, p \in LidarProperties}

LidarCollections ==
    {River(f) : f \in UNION {[1..n -> LidarFeatures] : n \in 0..MaxLidarFeatures}}

\* Arguments processLidarGeoJSON rejects.
InvalidCollections ==
    { Null, Undefined, Obj([type |-> Str("FeatureCollection")]),
      Obj([type |-> Str("FeatureCollection"), features |-> Null]),
      Obj([type |-> Str("FeatureCollection"), features |-> Obj(EmptyObj)]) }

InitGeo ==
    /\ geoJsonData \in LidarCollections \cup InvalidCollections
    /\ geoOutcome = NoOutcome
    /\ CatIdle
    /\ RiskIdle
    /\ NearestIdle
    /\ MergeIdle
    /\ CsvIdle
    /\ ValidateIdle
    /\ StatsIdle
    /\ DepthIdle
    /\ IndexIdle
    /\ AppIdle
    /\ StyleIdle

\* handleLidarGeoJsonUpload's call processLidarGeoJSON(data)
ProcessLidarGeoJSON ==
    /\ geoOutcome = NoOutcome
    /\ geoOutcome' = processLidarGeoJSON(geoJsonData)
    /\ UNCHANGED geoJsonData
    /\ UNCHANGED <<catVars, riskVars, nearestVars, mergeVars, csvVars, validateVars, statsVars, depthVars, indexVars, appVars, styleVars>>

NextGeo == ProcessLidarGeoJSON

SpecGeo == InitGeo /\ [][NextGeo]_vars

(***************************************************************************)
(* Specification SpecValidate: validateLidarData applied to arrays of up   *)
(* to MaxValidated points                                                  *)
(***************************************************************************)
MaxValidated == 2

\* A point at latitude 5, longitude 1 with the given other properties.
ValidatedPoint(others) == Spread([segment_id |-> Str("s1"), latitude |-> Num(5000), longitude |-> Num(1000)], others)

\* Points: without optional attributes; with a vegetation density above 1,
\* below 0, at the bounds, null; with a bank height above 50, below 0, at
\* the bounds; with both out of range; and with a missing, zero or
\* out-of-range coordinate.
ValidatedPoints ==
    { ValidatedPoint(EmptyObj),
      ValidatedPoint([veg_density |-> Num(1500)]),
      ValidatedPoint([veg_density |-> Num(0 - 100)]),
      ValidatedPoint([veg_density |-> Num(0), bank_height_m |-> Num(0)]),
      ValidatedPoint([veg_density |-> Num(1000), bank_height_m |-> Num(50000)]),
      ValidatedPoint([veg_density |-> Null]),
      ValidatedPoint([bank_height_m |-> Num(60000)]),
      ValidatedPoint([bank_height_m |-> Num(0 - 1500)]),
      ValidatedPoint([bank_height_m |-> Num(12000), veg_density |-> Num(400)]),
      ValidatedPoint([bank_height_m |-> Num(60000), veg_density |-> Num(1500)]),
      [segment_id |-> Str("s2"), longitude |-> Num(1000), veg_density |-> Num(1500)],
      ValidatedPoint([latitude |-> Num(95250), bank_height_m |-> Num(60000)]),
      ValidatedPoint([longitude |-> Num(0 - 200000)]),
      ValidatedPoint([latitude |-> Num(0)]) }

ValidatedArrays ==
    {Arr(a) : a \in UNION {[1..n -> ValidatedPoints] : n \in 0..MaxValidated}}
    \cup {Null, Undefined, Obj(ValidatedPoint(EmptyObj))}

InitValidate ==
    /\ validateArray \in ValidatedArrays
    /\ validateOutcome = [kind |-> "none"]
    /\ CatIdle
    /\ RiskIdle
    /\ NearestIdle
    /\ MergeIdle
    /\ CsvIdle
    /\ GeoIdle
    /\ StatsIdle
    /\ DepthIdle
    /\ IndexIdle
    /\ AppIdle
    /\ StyleIdle

\* handleMergeLidar's call validateLidarData(appState.lidarData)
ValidateLidarData ==
    /\ validateOutcome = [kind |-> "none"]
    /\ validateOutcome' = validateLidarData(validateArray)
    /\ UNCHANGED validateArray
    /\ UNCHANGED <<catVars, riskVars, nearestVars, mergeVars, csvVars, geoVars, statsVars, depthVars, indexVars, appVars, styleVars>>

NextValidate == ValidateLidarData

SpecValidate == InitValidate /\ [][NextValidate]_vars

(***************************************************************************)
(* Specification SpecStats: getAnalysisStatistics applied to collections   *)
(* of up to MaxStatSegments features, and to the analysed built-in dataset *)
(***************************************************************************)
MaxStatSegments == 3

\* A `calculated` block as the statistics read it.
StatBlock(category, ri, velocity, shear) ==
    Obj([riskCategory |-> Str(category), riskIndex |-> Num(ri),
         velocity |-> Num(velocity), shearStress |-> Num(shear)])

\* Features as an analysis leaves them: segments of negative width, which it
\* skips, without a `calculated` block, with a null one, and with a block the
\* file brought with it, whose category is not one of the five; and
\* segments with a block of each of the five categories.
StatFeatures ==
    {[geometry |-> Undefined, properties |-> Obj(o)] :
        o \in { [id |-> Num(1), channel_width |-> Num(0 - 50)],
                [id |-> Num(2), channel_width |-> Num(0 - 50), calculated |-> Null],
                [id |-> Num(3), calculated |-> StatBlock("High Erosion", 1870, 2210, 9350)],
                [id |-> Num(4), calculated |-> StatBlock("Medium Erosion", 1300, 1540, 6500)],
                [id |-> Num(5), calculated |-> StatBlock("Stable", 1000, 1250, 2510)],
                [id |-> Num(6), calculated |-> StatBlock("Medium Deposition", 750, 980, 1880)],
                [id |-> Num(7), calculated |-> StatBlock("High Deposition", 330, 410, 830)],
                [id |-> Num(8), channel_width |-> Num(0 - 50),
                 calculated |-> StatBlock("Severe", 2500, 3000, 12500)] }}

\* The built-in dataset after an analysis at 300 m3/s.
AnalysedDefault == calculateRiskProfile(300, DEFAULT_GEOJSON, HYDRODYNAMIC_PARAMS).result

StatCollections ==
    {Null, Undefined, Obj([type |-> Str("FeatureCollection")]),
     Obj([type |-> Str("FeatureCollection"), features |-> Null]), AnalysedDefault}
    \cup {Obj([type |-> Str("FeatureCollection"), features |-> Arr(f)]) :
            f \in UNION {[1..n -> StatFeatures] : n \in 0..MaxStatSegments}}

InitStats ==
    /\ statsData \in StatCollections
    /\ statsOutcome = [kind |-> "none"]
    /\ CatIdle
    /\ RiskIdle
    /\ NearestIdle
    /\ MergeIdle
    /\ CsvIdle
    /\ GeoIdle
    /\ ValidateIdle
    /\ DepthIdle
    /\ IndexIdle
    /\ AppIdle
    /\ StyleIdle

\* performAnalysis's call getAnalysisStatistics(results)
GetAnalysisStatistics ==
    /\ statsOutcome = [kind |-> "none"]
    /\ statsOutcome' = getAnalysisStatistics(statsData)
    /\ UNCHANGED statsData
    /\ UNCHANGED <<catVars, riskVars, nearestVars, mergeVars, csvVars, geoVars, validateVars, depthVars, indexVars, appVars, styleVars>>

NextStats == GetAnalysisStatistics

SpecStats == InitStats /\ [][NextStats]_vars

(***************************************************************************)
(* calculateFlowDepth as a function of its four arguments: one call after  *)
(* another, each differing from the call before in at most one argument.   *)
(***************************************************************************)
\* discharge, m3/s
DepthDischarges == {100, 300, 1000}

\* channelWidth, m
DepthWidths == {100, 200, 400}

\* manningN, thousandths
DepthMannings == {35, 50}

\* baseSlope, millionths; 0 takes the default-depth branch
DepthSlopes == {0, 500, 2500}

DepthArguments == DepthDischarges \X DepthWidths \X DepthMannings \X DepthSlopes

\* The arguments a and b differ in no argument but, possibly, the k-th.
SameBut(a, b, k) == \A j \in 1..4 : j # k => a[j] = b[j]

InitDepth ==
    /\ depthArgs \in DepthArguments
    /\ depthResult = calculateFlowDepth(depthArgs[1], depthArgs[2], depthArgs[3], depthArgs[4])
    /\ depthArgsBefore = <<0, 0, 0, 0>>
    /\ depthResultBefore = -1
    /\ CatIdle
    /\ RiskIdle
    /\ NearestIdle
    /\ MergeIdle
    /\ CsvIdle
    /\ GeoIdle
    /\ ValidateIdle
    /\ StatsIdle
    /\ IndexIdle
    /\ AppIdle
    /\ StyleIdle

\* calculateFlowDepth(discharge, channelWidth, manningN, baseSlope)
CalculateFlowDepth(a) ==
    /\ \E k \in 1..4 : SameBut(depthArgs, a, k)
    /\ depthArgsBefore' = depthArgs
    /\ depthResultBefore' = depthResult
    /\ depthArgs' = a
    /\ depthResult' = calculateFlowDepth(a[1], a[2], a[3], a[4])
    /\ UNCHANGED <<catVars, riskVars, nearestVars, mergeVars, csvVars, geoVars, validateVars, statsVars, indexVars, appVars, styleVars>>

NextDepth == \E a \in DepthArguments : CalculateFlowDepth(a)

SpecDepth == InitDepth /\ [][NextDepth]_vars

(***************************************************************************)
(* calculateRiskIndex as a function of its three arguments.                *)
(***************************************************************************)
\* shearStress, thousandths of a Pa
IndexShears == {1000, 2500, 2501, 4000, 5000, 12500}

\* adjustedCriticalShear, thousandths of a Pa
IndexCriticalShears == {2500, 3125, 5000}

\* bankHeight, thousandths of a metre
IndexBankHeights == {0, 5000, 10000, 10001, 15000, 30000}

InitIndex ==
    /\ indexArgs \in IndexShears \X IndexCriticalShears \X IndexBankHeights
    /\ indexResult = -1
    /\ CatIdle
    /\ RiskIdle
    /\ NearestIdle
    /\ MergeIdle
    /\ CsvIdle
    /\ GeoIdle
    /\ ValidateIdle
    /\ StatsIdle
    /\ DepthIdle
    /\ AppIdle
    /\ StyleIdle

\* calculateRiskIndex(shearStress, adjustedCriticalShear, bankHeight)
CalculateRiskIndex ==
    /\ indexResult = -1
    /\ indexResult' = calculateRiskIndex(indexArgs[1], indexArgs[2], indexArgs[3])
    /\ UNCHANGED indexArgs
    /\ UNCHANGED <<catVars, riskVars, nearestVars, mergeVars, csvVars, geoVars, validateVars, statsVars, depthVars, appVars, styleVars>>

NextIndex == CalculateRiskIndex

SpecIndex == InitIndex /\ [][NextIndex]_vars

(***************************************************************************)
(* Specification SpecApp: the application (the last definitions of the     *)
(* application script): its state appState and its handlers, from the      *)
(* state initializeApp leaves.                                             *)
(*                                                                         *)
(* A collection in appState is [id, origin, data]: id is the identity of   *)
(* its feature objects (0: those of the DEFAULT_GEOJSON constant), so that *)
(* a write through one reference shows through every reference of the same *)
(* id; origin is 0 for a copy of the built-in dataset and n for the n-th   *)
(* river upload; data is the value.                                        *)
(***************************************************************************)
APP_CONFIG == [defaultDischarge |-> 300]

\* null, for appState.currentGeoJSON and appState.analysisResults
NoData == [id |-> 0 - 1, origin |-> 0 - 1, data |-> Null]

\* At most MaxUploads river uploads are started.
MaxUploads == 2

\* The values typed in the discharge input, m3/s.
AppDischarges == {300, 1000}

\* A file: whether JSON.parse accepts its text and the value it denotes.
JsonFile(value) == [parses |-> TRUE, value |-> value]

NotJson == [parses |-> FALSE, value |-> Undefined]

\* Coordinates [lon, lat] along the built-in river, thousandths of a degree.
QA == <<80000, 26000>>

QB == <<81000, 26000>>

QC == <<88000, 24000>>

\* One segment, from QA to QB, with the properties of the first built-in one.
UploadSegment == [Ganga1 EXCEPT !.geometry = Geometry("LineString", <<QA, QB>>)]

\* River files: a Feature; one segment; a segment and a feature without
\* `properties`.
RiverFiles ==
    { JsonFile(Obj([type |-> Str("Feature")])),
      JsonFile(River(<<UploadSegment>>)),
      JsonFile(River(<<UploadSegment, [geometry |-> UploadSegment.geometry, properties |-> Undefined]>>)) }

\* LiDAR CSV files: a header alone; one row, of vegetation density 2.
LidarCsvFiles ==
    { <<"segment_id", ",", "latitude", ",", "longitude">>,
      JoinLines(<< <<"longitude", ",", "veg_density", ",", "segment_id", ",", "latitude">>,
                   <<"20.5", ",", "2", ",", "s1", ",", "10.5">> >>) }

\* A Point feature of a LiDAR file.
LidarFeature(id, coordinate, vegDensity) ==
    [geometry |-> Geometry("Point", coordinate),
     properties |-> Obj([id |-> Num(id), veg_density |-> Num(vegDensity), bank_height_m |-> Num(12000)])]

\* LiDAR GeoJSON files: not JSON; a point of vegetation density 1.5 at QB
\* and a point of vegetation density 0.4 at QC.
LidarGeoJsonFiles ==
    { NotJson,
      JsonFile(River(<<LidarFeature(1000, QB, 1500), LidarFeature(2000, QC, 400)>>)) }

\* A session is followed for MaxEvents events (handler calls and completed
\* file reads).
MaxEvents == 4

Event(cleared) == appEvents < MaxEvents /\ appEvents' = appEvents + 1 /\ appCleared' = cleared

\* The identity of the objects a handler creates: one no reference held by
\* appState.analysisResults has (the collection being replaced is dropped).
FreshId(results) == IF results.id = 1 THEN 2 ELSE 1

\* The state after a write to the feature objects of currentGeoJSON: every
\* reference to the same objects shows it.
Written(d, data) ==
    [current |-> [d.current EXCEPT !.data = data],
     results |-> IF d.results.id = d.current.id THEN [d.results EXCEPT !.data = data] ELSE d.results,
     default |-> IF d.current.id = 0 THEN Obj(Put(d.default.o, "features", data.o["features"]))
                 ELSE d.default]

\* F(v), with v evaluated once.
Bind(v, F(_)) == CHOOSE y \in {F(x) : x \in {v}} : TRUE

\* The state after calculateRiskProfile ended as r on currentGeoJSON.
AfterAnalysis(d, r) ==
    IF r.threw THEN Written(d, r.data)
    ELSE [Written(d, r.data) EXCEPT
            !.results = [id |-> d.current.id, origin |-> d.current.origin, data |-> r.result]]

\* performAnalysis(): calculateRiskProfile writes to the features of
\* currentGeoJSON; analysisResults is assigned when it returns and keeps its
\* value when it throws.
performAnalysis(d, q) ==
    IF d.current = NoData THEN d
    ELSE Bind(calculateRiskProfile(q, d.current.data, HYDRODYNAMIC_PARAMS),
              LAMBDA r : AfterAnalysis(d, r))

\* appState.currentGeoJSON = JSON.parse(JSON.stringify(DEFAULT_GEOJSON)):
\* new objects, of identity id.
DefaultCopy_SameObjects(d, id) == [d EXCEPT !.current = [id |-> 0, origin |-> 0, data |-> d.default]]

DefaultCopy(d, id) == [d EXCEPT !.current = [id |-> id, origin |-> 0, data |-> d.default]]

\* initializeApp()
InitApp ==
    /\ appData = performAnalysis(DefaultCopy([current |-> NoData, results |-> NoData, default |-> DEFAULT_GEOJSON], 1),
                                 APP_CONFIG.defaultDischarge)
    /\ appLidar = Null
    /\ appDischarge = APP_CONFIG.defaultDischarge
    /\ appPending = <<>>
    /\ appStarted = 0
    /\ appAccepted = {}
    /\ appMergedFrom = Null
    /\ appCleared = FALSE
    /\ appEvents = 0
    /\ appExported = "none"
    /\ CatIdle
    /\ RiskIdle
    /\ NearestIdle
    /\ MergeIdle
    /\ CsvIdle
    /\ GeoIdle
    /\ ValidateIdle
    /\ StatsIdle
    /\ DepthIdle
    /\ IndexIdle
    /\ StyleIdle

\* The `change` listener of the discharge input.
ChangeDischarge(q) ==
    /\ Event(FALSE)
    /\ appDischarge' = q
    /\ UNCHANGED <<appData, appLidar, appPending, appStarted, appAccepted, appMergedFrom, appExported>>
    /\ UNCHANGED <<catVars, riskVars, nearestVars, mergeVars, csvVars, geoVars, validateVars, statsVars, depthVars, indexVars, styleVars>>

\* handleRunAnalysis()
HandleRunAnalysis ==
    /\ Event(FALSE)
    /\ appData' = performAnalysis(appData, appDischarge)
    /\ UNCHANGED <<appLidar, appDischarge, appPending, appStarted, appAccepted, appMergedFrom, appExported>>
    /\ UNCHANGED <<catVars, riskVars, nearestVars, mergeVars, csvVars, geoVars, validateVars, statsVars, depthVars, indexVars, styleVars>>

\* handleGeoJsonUpload(event): the read of the file is started.
HandleGeoJsonUpload(file) ==
    /\ Event(FALSE)
    /\ appStarted < MaxUploads
    /\ appStarted' = appStarted + 1
    /\ appPending' = Append(appPending, [upload |-> appStarted + 1, file |-> file])
    /\ UNCHANGED <<appData, appLidar, appDischarge, appAccepted, appMergedFrom, appExported>>
    /\ UNCHANGED <<catVars, riskVars, nearestVars, mergeVars, csvVars, geoVars, validateVars, statsVars, depthVars, indexVars, styleVars>>

\* The checks of reader.onload on the file of a river upload.
Accepted(file) ==
    /\ file.parses
    /\ file.value.t = "obj"
    /\ Get(file.value.o, "type") = Str("FeatureCollection")
    /\ Get(file.value.o, "features").t = "arr"

\* appState.currentGeoJSON = data, then performAnalysis()
Uploaded(d, read, q) ==
    performAnalysis([d EXCEPT !.current = [id |-> FreshId(d.results), origin |-> read.upload,
                                           data |-> read.file.value]], q)

\* reader.onload of handleGeoJsonUpload, for the k-th read in flight: reads
\* complete in any order.
GeoJsonLoaded(k) ==
    /\ Event(FALSE)
    /\ k \in DOMAIN appPending
    /\ appData' = IF Accepted(appPending[k].file) THEN Uploaded(appData, appPending[k], appDischarge)
                  ELSE appData
    /\ appAccepted' = IF Accepted(appPending[k].file) THEN appAccepted \cup {appPending[k].upload}
                      ELSE appAccepted
    /\ appPending' = SubSeq(appPending, 1, k - 1) \o SubSeq(appPending, k + 1, Len(appPending))
    /\ UNCHANGED <<appLidar, appDischarge, appStarted, appMergedFrom, appExported>>
    /\ UNCHANGED <<catVars, riskVars, nearestVars, mergeVars, csvVars, geoVars, validateVars, statsVars, depthVars, indexVars, styleVars>>

\* reader.onload of handleLidarCsvUpload
LidarCsvLoaded(text) ==
    /\ Event(FALSE)
    /\ LET r == processLidarCSV(text)
       IN  appLidar' = IF r.kind = "threw" THEN Null ELSE Arr(r.data)
    /\ UNCHANGED <<appData, appDischarge, appPending, appStarted, appAccepted, appMergedFrom, appExported>>
    /\ UNCHANGED <<catVars, riskVars, nearestVars, mergeVars, csvVars, geoVars, validateVars, statsVars, depthVars, indexVars, styleVars>>

\* reader.onload of handleLidarGeoJsonUpload
LidarGeoJsonLoaded(file) ==
    /\ Event(FALSE)
    /\ LET r == IF file.parses THEN processLidarGeoJSON(file.value) ELSE Threw("SyntaxError")
       IN  appLidar' = IF r.kind = "threw" THEN Null ELSE Arr(r.data)
    /\ UNCHANGED <<appData, appDischarge, appPending, appStarted, appAccepted, appMergedFrom, appExported>>
    /\ UNCHANGED <<catVars, riskVars, nearestVars, mergeVars, csvVars, geoVars, validateVars, statsVars, depthVars, indexVars, styleVars>>

\* handleMergeLidar(): whether the guards and the validation let the merge run.
MergeRuns ==
    /\ appLidar # Null
    /\ Len(appLidar.a) > 0
    /\ appData.current # NoData
    /\ validateLidarData(appLidar).kind = "returned"
    /\ validateLidarData(appLidar).result.isValid

\* appState.currentGeoJSON = mergeLidarWithRiver(appState.currentGeoJSON,
\* appState.lidarData), then performAnalysis(); a merge that throws leaves
\* what it wrote before.
Merged(d, lidarData, q) ==
    Bind(mergeLidarWithRiver(d.current.data, lidarData),
         LAMBDA m : IF m.error = "" THEN Bind(Written(d, m.data), LAMBDA w : performAnalysis(w, q))
                    ELSE Written(d, m.data))

\* handleMergeLidar()
HandleMergeLidar ==
    /\ Event(FALSE)
    /\ appData' = IF MergeRuns THEN Merged(appData, appLidar, appDischarge) ELSE appData
    /\ appMergedFrom' = IF MergeRuns THEN appLidar ELSE appMergedFrom
    /\ UNCHANGED <<appLidar, appDischarge, appPending, appStarted, appAccepted, appExported>>
    /\ UNCHANGED <<catVars, riskVars, nearestVars, mergeVars, csvVars, geoVars, validateVars, statsVars, depthVars, indexVars, styleVars>>

\* handleExportData()
HandleExportData ==
    /\ Event(FALSE)
    /\ appExported' = IF appData.results = NoData THEN appExported
                      ELSE IF appData.results.id = appData.current.id THEN "current"
                      ELSE "stale"
    /\ UNCHANGED <<appData, appLidar, appDischarge, appPending, appStarted, appAccepted, appMergedFrom>>
    /\ UNCHANGED <<catVars, riskVars, nearestVars, mergeVars, csvVars, geoVars, validateVars, statsVars, depthVars, indexVars, styleVars>>

\* handleClearData()
HandleClearData ==
    /\ Event(TRUE)
    /\ appData' = performAnalysis(DefaultCopy([appData EXCEPT !.results = NoData], 1),
                                  APP_CONFIG.defaultDischarge)
    /\ appLidar' = Null
    /\ appDischarge' = APP_CONFIG.defaultDischarge
    /\ UNCHANGED <<appPending, appStarted, appAccepted, appMergedFrom, appExported>>
    /\ UNCHANGED <<catVars, riskVars, nearestVars, mergeVars, csvVars, geoVars, validateVars, statsVars, depthVars, indexVars, styleVars>>

NextApp ==
    \/ \E q \in AppDischarges : ChangeDischarge(q)
    \/ HandleRunAnalysis
    \/ \E file \in RiverFiles : HandleGeoJsonUpload(file)
    \/ \E k \in 1..MaxUploads : GeoJsonLoaded(k)
    \/ \E text \in LidarCsvFiles : LidarCsvLoaded(text)
    \/ \E file \in LidarGeoJsonFiles : LidarGeoJsonLoaded(file)
    \/ HandleMergeLidar
    \/ HandleExportData
    \/ HandleClearData

SpecApp == InitApp /\ [][NextApp]_vars

(***************************************************************************)
(* mapManager.js: getStyleByRiskIndex, addRiverLayer; constants.js:        *)
(* RISK_CATEGORIES                                                         *)
(***************************************************************************)
Style(color, weight) == [color |-> color, weight |-> weight]

\* The colour and weight RISK_CATEGORIES gives each category.
RISK_CATEGORIES ==
    [name \in {"High Erosion", "Medium Erosion", "Stable", "Medium Deposition", "High Deposition"} |->
        CASE name = "High Erosion"      -> Style("#ef4444", 7)
          [] name = "Medium Erosion"    -> Style("#f97316", 6)
          [] name = "Stable"            -> Style("#22c55e", 4)
          [] name = "Medium Deposition" -> Style("#3b82f6", 6)
          [] name = "High Deposition"   -> Style("#6366f1", 7)]

\* ri: the riskIndex argument, in thousandths.
getStyleByRiskIndex(ri) ==
    IF ri > 1500 THEN Style("#ef4444", 7)
    ELSE IF ri > 1100 THEN Style("#f97316", 6)
    ELSE IF ri < 600 THEN Style("#6366f1", 7)
    ELSE IF ri < 900 THEN Style("#3b82f6", 6)
    ELSE Style("#22c55e", 4)

\* feature.properties.calculated?.riskIndex || 1.0
StyledIndex(feature) ==
    LET calculated == Get(feature.properties.o, "calculated")
    IN  Or(IF calculated.t = "obj" THEN Get(calculated.o, "riskIndex") ELSE Undefined, Num(1000))

\* The `style` option of L.geoJSON in addRiverLayer, for each feature.
addRiverLayer(riskedData) ==
    IF ~Truthy(riskedData) \/ ~Truthy(Get(riskedData.o, "features")) THEN <<>>
    ELSE [i \in 1..Len(riskedData.o["features"].a) |->
             getStyleByRiskIndex(StyledIndex(riskedData.o["features"].a[i]).n)]

(***************************************************************************)
(* Specification SpecStyle: one analysis of a collection, displayed on the *)
(* map (performAnalysis: calculateRiskProfile, then the river layer).      *)
(***************************************************************************)
\* Curvatures, in thousandths, around those that bring the risk index of
\* the first built-in segment to 0.6, 0.9, 1.1 and 1.5, and its own.
StyleCurvatures == (70..80) \cup (100..106) \cup (125..131) \cup (152..158) \cup (188..194) \cup (257..263) \cup {1200}

\* The first built-in segment with each curvature, or with curvature 0.1 and
\* a critical shear of 1000 N/m2; the built-in dataset.
StyleCollections ==
    {River(<<WithProps(Ganga1, [curvature |-> Num(c)])>>) : c \in StyleCurvatures}
    \cup {River(<<WithProps(Ganga1, [curvature |-> Num(100), critical_shear |-> Num(1000000)])>>), DEFAULT_GEOJSON}

InitStyle ==
    /\ styleData \in StyleCollections
    /\ styleDischarge \in Discharges
    /\ styleLayer = <<>>
    /\ CatIdle
    /\ RiskIdle
    /\ NearestIdle
    /\ MergeIdle
    /\ CsvIdle
    /\ GeoIdle
    /\ ValidateIdle
    /\ StatsIdle
    /\ DepthIdle
    /\ IndexIdle
    /\ AppIdle

\* performAnalysis(): the analysis, then addRiverLayer(results)
AddRiverLayer ==
    /\ styleLayer = <<>>
    /\ styleData' = calculateRiskProfile(styleDischarge, styleData, HYDRODYNAMIC_PARAMS).data
    /\ styleLayer' = addRiverLayer(calculateRiskProfile(styleDischarge, styleData, HYDRODYNAMIC_PARAMS).result)
    /\ UNCHANGED styleDischarge
    /\ UNCHANGED <<catVars, riskVars, nearestVars, mergeVars, csvVars, geoVars, validateVars, statsVars, depthVars, indexVars, appVars>>

NextStyle == AddRiverLayer

SpecStyle == InitStyle /\ [][NextStyle]_vars

\* The features of a collection (none when it has no `features`).
FeaturesOf(data) ==
    IF Truthy(data) /\ Truthy(Get(data.o, "features")) THEN data.o["features"].a ELSE <<>>

HasCalculated(feature) ==
    feature.properties.t = "obj" /\ "calculated" \in DOMAIN feature.properties.o

\* The channel_width property of a feature is present and not > 0.
WidthNotPositive(feature) ==
    /\ feature.properties.t = "obj"
    /\ "channel_width" \in DOMAIN feature.properties.o
    /\ feature.properties.o["channel_width"].t = "num"
    /\ feature.properties.o["channel_width"].n <= 0

\* C1: getRiskCategory returns 'High Erosion' iff riskIndex > 1.5, 'Medium
\* Erosion' iff 1.1 < riskIndex <= 1.5, 'High Deposition' iff riskIndex < 0.6,
\* 'Medium Deposition' iff 0.6 <= riskIndex < 0.9 and 'Stable' iff
\* 0.9 <= riskIndex <= 1.1: five disjoint intervals that cover every value.
C1_Partition ==
    riskCategory # "" =>
        /\ (riskCategory = "High Erosion") <=> (riskIndex > 1500)
        /\ (riskCategory = "Medium Erosion") <=> (1100 < riskIndex /\ riskIndex <= 1500)
        /\ (riskCategory = "High Deposition") <=> (riskIndex < 600)
        /\ (riskCategory = "Medium Deposition") <=> (600 <= riskIndex /\ riskIndex < 900)
        /\ (riskCategory = "Stable") <=> (900 <= riskIndex /\ riskIndex <= 1100)
        /\ riskCategory \in {"High Erosion", "Medium Erosion", "High Deposition",
                             "Medium Deposition", "Stable"}

\* riskIndex = 1.5 has been classified, and as 'Medium Erosion'.
C1_Witness == riskIndex = 1500 /\ riskCategory = "Medium Erosion"

\* C2: every segment whose channel_width property is zero or negative is
\* passed through calculateSegmentRisk unmodified: the feature after the run
\* is the feature before it, with no `calculated` field added.
C2_NonPositiveWidthSkipped ==
    analysis = "returned" =>
        \A i \in 1..Len(FeaturesOf(dataBefore)) :
            WidthNotPositive(FeaturesOf(dataBefore)[i]) =>
                FeaturesOf(geojsonData)[i] = FeaturesOf(dataBefore)[i]

(***************************************************************************)
(* Claims about findNearestLidarPoint and mergeLidarWithRiver              *)
(***************************************************************************)
Injections(n, m) == {k \in [1..n -> 1..m] : \A i \in 1..n : \A j \in 1..n : i # j => k[i] # k[j]}

\* The segment center as the claim words it: the coordinate at index
\* floor(length / 2) of a LineString, that of sub-line floor(outerLength / 2)
\* of a MultiLineString; <<>> when there is none.
ClaimCenter(feature) ==
    LET g == feature.geometry
    IN  IF g.t # "obj" \/ "coordinates" \notin DOMAIN g.o \/ "type" \notin DOMAIN g.o THEN <<>>
        ELSE LET c == g.o["coordinates"].a
                 mid == Len(c) \div 2
             IN  IF g.o["type"] = Str("LineString")
                 THEN IF mid < Len(c) THEN c[mid + 1] ELSE <<>>
                 ELSE IF g.o["type"] = Str("MultiLineString")
                 THEN IF mid < Len(c) /\ Len(c[mid + 1]) \div 2 < Len(c[mid + 1])
                      THEN c[mid + 1][Len(c[mid + 1]) \div 2 + 1]
                      ELSE <<>>
                 ELSE <<>>

\* The point is located exactly at the coordinate [lon, lat].
LocatedAt(point, coordinate) ==
    /\ coordinate # <<>>
    /\ Get(point, "latitude") = Num(coordinate[2])
    /\ Get(point, "longitude") = Num(coordinate[1])

\* The latest merge was of a river of LineString / MultiLineString segments,
\* each with a center and properties, and of a LiDAR array.
RoundTripInput ==
    /\ mergeError # "none"
    /\ lidar.t = "arr"
    /\ Len(FeaturesOf(riverBefore)) >= 1
    /\ \A i \in 1..Len(FeaturesOf(riverBefore)) :
          /\ FeaturesOf(riverBefore)[i].properties.t = "obj"
          /\ ClaimCenter(FeaturesOf(riverBefore)[i]) # <<>>

\* k places one point of the LiDAR array at the center of every segment.
PlacesPoints(k) ==
    \A i \in DOMAIN k : LocatedAt(lidar.a[k[i]], ClaimCenter(FeaturesOf(riverBefore)[i]))

\* Every segment is merged, with the segment_id of the point k places at its center.
MergedWith(k) ==
    /\ mergeError = ""
    /\ \A i \in DOMAIN k :
          LET props == FeaturesOf(river)[i].properties.o
          IN  /\ Get(props, "lidar_merged") = Bool(TRUE)
              /\ Get(props, "lidar_source_id") = Get(lidar.a[k[i]], "segment_id")

Placements == {k \in Injections(Len(FeaturesOf(riverBefore)), Len(lidar.a)) : PlacesPoints(k)}

DistinctCenters ==
    \A i \in 1..Len(FeaturesOf(riverBefore)) : \A j \in 1..Len(FeaturesOf(riverBefore)) :
        i # j => ClaimCenter(FeaturesOf(riverBefore)[i]) # ClaimCenter(FeaturesOf(riverBefore)[j])

\* C3 as stated: whenever the LiDAR set holds one point per segment, placed at
\* that segment's center, the merge leaves every segment with lidar_merged =
\* true and the segment_id of its own point as lidar_source_id.
C3_RoundTripAnyCenters ==
    (RoundTripInput /\ Placements # {}) => \E k \in Placements : MergedWith(k)

\* C3, amended: the same, for rivers whose segments have pairwise distinct centers.
C3_RoundTrip ==
    (RoundTripInput /\ Placements # {} /\ DistinctCenters) => \E k \in Placements : MergedWith(k)

\* Two segments with different centers were merged, each with its own point.
C3_Witness ==
    /\ RoundTripInput /\ DistinctCenters
    /\ Len(FeaturesOf(riverBefore)) = 2
    /\ \E k \in Placements : MergedWith(k) /\ k[1] = 2 /\ k[2] = 1
    /\ FeaturesOf(riverBefore)[1].geometry.o["type"] = Str("MultiLineString")

\* The square of the planar distance between the target and point j.
SquaredDistance(j) ==
    LET dLat == nearestArray[j]["latitude"].n - nearestTarget[1]
        dLon == nearestArray[j]["longitude"].n - nearestTarget[2]
    IN  dLat * dLat + dLon * dLon

\* C4: on a non-empty array findNearestLidarPoint returns a point whose planar
\* distance to the target is at most that of every other point, and among the
\* points at the minimal distance the one with the lowest index.
C4_NearestFirstMinimum ==
    (nearestResult # 0 - 1 /\ Len(nearestArray) >= 1) =>
        /\ nearestResult \in 1..Len(nearestArray)
        /\ \A j \in 1..Len(nearestArray) : SquaredDistance(nearestResult) <= SquaredDistance(j)
        /\ \A j \in 1..(nearestResult - 1) : SquaredDistance(nearestResult) < SquaredDistance(j)

\* The second of three points was returned: the first is farther, the third as near.
C4_Witness ==
    /\ Len(nearestArray) = 3
    /\ nearestResult = 2
    /\ SquaredDistance(3) = SquaredDistance(2)
    /\ SquaredDistance(1) > SquaredDistance(2)
    /\ SquaredDistance(2) > 0

\* The nearest point of the claim: the first of the points of the array, with
\* numeric coordinates, that minimise the planar distance to the coordinate;
\* 0 when no point has numeric coordinates.
ClaimNearest(coordinate, points) ==
    LET numeric == {j \in 1..Len(points) :
                       Get(points[j], "latitude").t = "num" /\ Get(points[j], "longitude").t = "num"}
        d2(j) == (points[j]["latitude"].n - coordinate[2]) * (points[j]["latitude"].n - coordinate[2])
                 + (points[j]["longitude"].n - coordinate[1]) * (points[j]["longitude"].n - coordinate[1])
    IN  IF numeric = {} THEN 0
        ELSE CHOOSE j \in numeric :
                /\ \A x \in numeric : d2(j) <= d2(x)
                /\ \A x \in numeric : x < j => d2(j) < d2(x)

\* C5: after a merge that returned, every feature with a center and a nearest
\* point has lidar_merged = true and lidar_source_id = that point's
\* segment_id, and its lidar_riparian_veg_density is that point's veg_density
\* whenever this is defined and not null, 0 included.
C5_MergedFromNearest ==
    mergeError = "" =>
        \A i \in 1..Len(FeaturesOf(riverBefore)) :
            LET c == ClaimCenter(FeaturesOf(riverBefore)[i])
                n == ClaimNearest(c, lidar.a)
                props == FeaturesOf(river)[i].properties.o
            IN  (c # <<>> /\ n # 0) =>
                    /\ Get(props, "lidar_merged") = Bool(TRUE)
                    /\ Get(props, "lidar_source_id") = Get(lidar.a[n], "segment_id")
                    /\ Get(lidar.a[n], "veg_density") \notin {Undefined, Null} =>
                          Get(props, "lidar_riparian_veg_density") = lidar.a[n]["veg_density"]

\* A vegetation density of 0 replaced a segment's 0.8.
C5_Witness ==
    /\ mergeError = ""
    /\ Len(FeaturesOf(riverBefore)) = 1
    /\ FeaturesOf(riverBefore)[1].properties.t = "obj"
    /\ ClaimCenter(FeaturesOf(riverBefore)[1]) # <<>>
    /\ Get(FeaturesOf(riverBefore)[1].properties.o, "lidar_riparian_veg_density") = Num(800)
    /\ Get(FeaturesOf(river)[1].properties.o, "lidar_riparian_veg_density") = Num(0)
    /\ Get(FeaturesOf(river)[1].properties.o, "lidar_source_id") = Str("s1")
    /\ Len(lidar.a) = 2

\* The geometry is missing, has no coordinates, or is of another type than
\* LineString and MultiLineString.
NoCenterGeometry(feature) ==
    LET g == feature.geometry
    IN  \/ g.t # "obj"
        \/ "coordinates" \notin DOMAIN g.o
        \/ Get(g.o, "type") \notin {Str("LineString"), Str("MultiLineString")}

\* C6: a merge returns every feature whose geometry is missing, has no
\* coordinates or is of another type than LineString / MultiLineString
\* unchanged, and raises no error for it (a TypeError comes from a feature
\* of another kind).
C6_NoCenterUnchanged ==
    mergeError # "none" =>
        /\ \A i \in 1..Len(FeaturesOf(riverBefore)) :
              NoCenterGeometry(FeaturesOf(riverBefore)[i]) =>
                  FeaturesOf(river)[i] = FeaturesOf(riverBefore)[i]
        /\ mergeError = "TypeError" =>
              \E i \in 1..Len(FeaturesOf(riverBefore)) : ~NoCenterGeometry(FeaturesOf(riverBefore)[i])

\* A merge returned on a river of a feature without coordinates and a Point,
\* neither of which carries lidar_merged.
C6_Witness ==
    /\ mergeError = ""
    /\ Len(lidar.a) = 2
    /\ Len(FeaturesOf(river)) = 2
    /\ \A i \in 1..2 : FeaturesOf(river)[i].geometry.t = "obj" /\ FeaturesOf(river)[i].properties.t = "obj"
    /\ "coordinates" \notin DOMAIN FeaturesOf(river)[1].geometry.o
    /\ Get(FeaturesOf(river)[2].geometry.o, "type") = Str("Point")
    /\ \A i \in 1..2 : "lidar_merged" \notin DOMAIN FeaturesOf(river)[i].properties.o

\* The arguments mergeLidarWithRiver must reject.
InvalidMergeArguments ==
    \/ riverBefore = Null
    \/ riverBefore = Undefined
    \/ riverBefore.t = "obj" /\ "features" \notin DOMAIN riverBefore.o
    \/ lidar.t # "arr"
    \/ lidar.t = "arr" /\ Len(lidar.a) = 0

\* C7: a merge whose river is null or lacks `features`, or whose LiDAR
\* argument is not an array or is empty, fails with an error and has modified
\* no feature.
C7_InvalidArgumentsRejected ==
    (mergeError # "none" /\ InvalidMergeArguments) =>
        /\ mergeError \in {"Invalid river GeoJSON", "Invalid LiDAR data array"}
        /\ river = riverBefore

\* A merge of two segments that have a center with an empty array failed.
C7_Witness ==
    /\ mergeError = "Invalid LiDAR data array"
    /\ lidar = Arr(<<>>)
    /\ Len(FeaturesOf(river)) = 2
    /\ \A i \in 1..2 : ClaimCenter(FeaturesOf(river)[i]) # <<>>

(***************************************************************************)
(* Claims about processLidarCSV and processLidarGeoJSON                    *)
(***************************************************************************)
\* The text as a table: the cells of its first non-empty line (the header)
\* and those of each later non-empty line (the data rows).
TableOf(text) ==
    LET lines == NonEmptyLines(text)
    IN  [lines |-> Len(lines),
         header |-> IF lines = <<>> THEN <<>> ELSE Cells(lines[1]),
         rows |-> [r \in 1..(Len(lines) - 1) |-> Cells(lines[r + 1])]]

\* The required columns the header lacks.
Lacking(header) ==
    {col \in {"segment_id", "latitude", "longitude"} : \A i \in 1..Len(header) : header[i] # col}

\* The message names the columns of the set, each once and no other, in some order.
NamesExactly(message, columns) ==
    \E order \in [1..Cardinality(columns) -> columns] :
        /\ \A i \in DOMAIN order : \A j \in DOMAIN order : i # j => order[i] # order[j]
        /\ message = "Invalid LiDAR CSV format: Missing required columns: " \o Join(order)

\* C8 as stated: for every text whose header line lacks required columns,
\* processLidarCSV fails with a message naming exactly the missing columns.
C8_MissingColumnsNamedAnyText ==
    LET table == TableOf(csvText)
    IN  (csvOutcome.kind # "none" /\ table.lines >= 1 /\ Lacking(table.header) # {}) =>
            /\ csvOutcome.kind = "threw"
            /\ NamesExactly(csvOutcome.message, Lacking(table.header))

\* C8, amended: for every text of at least two non-empty lines whose header
\* line lacks required columns, processLidarCSV fails with a message naming
\* exactly the missing columns.
C8_MissingColumnsNamed ==
    LET table == TableOf(csvText)
    IN  (csvOutcome.kind # "none" /\ table.lines >= 2 /\ Lacking(table.header) # {}) =>
            /\ csvOutcome.kind = "threw"
            /\ NamesExactly(csvOutcome.message, Lacking(table.header))

\* A text whose header lacks only longitude failed naming longitude, or one
\* whose header lacks segment_id and longitude failed naming both; its first
\* data row was "s1,10.5,20.5".
C8_Witness ==
    LET table == TableOf(csvText)
    IN  /\ table.lines = 3
        /\ \/ /\ Lacking(table.header) = {"longitude"}
              /\ csvOutcome.message = "Invalid LiDAR CSV format: Missing required columns: longitude"
           \/ /\ Lacking(table.header) = {"segment_id", "longitude"}
              /\ csvOutcome.message = "Invalid LiDAR CSV format: Missing required columns: segment_id, longitude"
        /\ table.rows[1] = <<"s1", "10.5", "20.5">>

\* The value of a column in a data row after coercion: that of the cell at
\* the column's place in the header, undefined without such a cell.
FieldOf(header, cells, column) ==
    LET places == {i \in 1..Len(header) : header[i] = column}
    IN  IF places = {} THEN Undefined
        ELSE LET place == CHOOSE i \in places : TRUE
             IN  IF place <= Len(cells) THEN CoerceValue(Str(cells[place])) ELSE Undefined

\* The LidarPoint of a data row: one field per header column.
PointOf(header, cells) ==
    [column \in {header[i] : i \in 1..Len(header)} |-> FieldOf(header, cells, column)]

\* The data rows whose segment_id, latitude and longitude are all truthy.
SurvivingRows(table) ==
    {r \in DOMAIN table.rows :
        \A column \in {"segment_id", "latitude", "longitude"} :
            Truthy(FieldOf(table.header, table.rows[r], column))}

\* The k-th of a set of rows in input order.
RowInOrder(rows, k) == CHOOSE r \in rows : Cardinality({x \in rows : x < r}) = k - 1

\* C9: processLidarCSV returns, in input order, exactly one LidarPoint per
\* non-empty data row whose segment_id, latitude and longitude are all truthy
\* after coercion (it does return when the header is complete and a row
\* survives), and it fails when the text has fewer than 2 non-empty lines or
\* when no row survives.
C9_SurvivingRowsInOrder ==
    LET table == TableOf(csvText)
        surviving == SurvivingRows(table)
    IN  csvOutcome.kind # "none" =>
            /\ csvOutcome.kind = "returned" =>
                  /\ Len(csvOutcome.data) = Cardinality(surviving)
                  /\ \A k \in 1..Len(csvOutcome.data) :
                        csvOutcome.data[k] = PointOf(table.header, table.rows[RowInOrder(surviving, k)])
            /\ (Lacking(table.header) = {} /\ surviving # {}) => csvOutcome.kind = "returned"
            /\ table.lines < 2 => csvOutcome.kind = "threw"
            /\ surviving = {} => csvOutcome.kind = "threw"

\* Of a header, the row "s1,10.5,20.5" and a row with a zero or hexadecimal
\* longitude, one point was returned, with latitude 10.5 and longitude 20.5.
C9_Witness ==
    LET table == TableOf(csvText)
    IN  /\ table.lines = 3
        /\ Cardinality(SurvivingRows(table)) = 1
        /\ csvOutcome.kind = "returned"
        /\ csvOutcome.data = <<[segment_id |-> Str("s1"), latitude |-> Num(10500), longitude |-> Num(20500)]>>
        /\ \E r \in 1..2 : Len(table.rows[r]) = 3 /\ table.rows[r][3] \in {"0", "0x10"}

\* The coordinates of a feature of the collection (none when it has no
\* geometry or the geometry has no coordinates).
CoordinatesOf(feature) ==
    IF feature.geometry.t = "obj" /\ "coordinates" \in DOMAIN feature.geometry.o
    THEN feature.geometry.o["coordinates"].a
    ELSE <<>>

\* C10: for every feature processLidarGeoJSON produces a point whose
\* latitude is geometry.coordinates[1] and whose longitude is
\* geometry.coordinates[0] whenever those coordinates are present.
C10_CoordinatesBeforeProperties ==
    geoOutcome.kind = "returned" =>
        \A i \in 1..Len(geoOutcome.data) :
            LET coords == CoordinatesOf(geoJsonData.o["features"].a[i])
            IN  /\ Len(coords) >= 2 => geoOutcome.data[i]["latitude"] = Num(coords[2])
                /\ Len(coords) >= 1 => geoOutcome.data[i]["longitude"] = Num(coords[1])

(***************************************************************************)
(* Claims about validateLidarData                                          *)
(***************************************************************************)
\* The number v lies outside [lo, hi] (thousandths).
Outside(v, lo, hi) == v.t = "num" /\ (v.n < lo \/ v.n > hi)

\* The latitude and longitude of the point are present and in range.
CoordinatesValid(point) ==
    /\ Truthy(Get(point, "latitude")) /\ ~Outside(Get(point, "latitude"), 0 - 90000, 90000)
    /\ Truthy(Get(point, "longitude")) /\ ~Outside(Get(point, "longitude"), 0 - 180000, 180000)

\* The entries validateLidarData can push to errors for the point at index idx.
ErrorsAbout(point, idx) ==
    {"Point " \o NatToString(idx) \o ": " \o m :
        m \in {"Missing latitude or longitude",
               "Invalid latitude " \o StringOf(Get(point, "latitude")),
               "Invalid longitude " \o StringOf(Get(point, "longitude")),
               "Vegetation density must be 0-1"}}

\* The entries of a list of messages.
Entries(messages) == {messages[i] : i \in 1..Len(messages)}

\* C11: for every point whose veg_density is defined and outside [0,1]
\* validateLidarData adds an entry to errors, none to warnings for the
\* density, and does not count the point in validPoints; a bank_height_m
\* outside [0,50] of a point that is valid otherwise adds a warning only, and
\* the point is counted: validPoints is the number of points with valid
\* coordinates and no veg_density outside [0,1].
C11_VegetationErrorBankWarning ==
    (validateOutcome.kind = "returned" /\ validateArray.t = "arr" /\ Len(validateArray.a) >= 1) =>
        LET points == validateArray.a
            result == validateOutcome.result
            counted == {i \in 1..Len(points) :
                           CoordinatesValid(points[i]) /\ ~Outside(Get(points[i], "veg_density"), 0, 1000)}
        IN  /\ result.validPoints = Num(1000 * Cardinality(counted))
            /\ \A i \in 1..Len(points) :
                  /\ Outside(Get(points[i], "veg_density"), 0, 1000) =>
                        /\ Entries(result.errors) \cap ErrorsAbout(points[i], i - 1) # {}
                        /\ Entries(result.warnings) \cap ErrorsAbout(points[i], i - 1) = {}
                        /\ i \notin counted
                  /\ (i \in counted /\ Outside(Get(points[i], "bank_height_m"), 0, 50000)) =>
                        /\ ("Point " \o NatToString(i - 1) \o ": Bank height "
                               \o StringOf(points[i]["bank_height_m"]) \o "m seems unusual")
                              \in Entries(result.warnings)
                        /\ Entries(result.errors) \cap ErrorsAbout(points[i], i - 1) = {}

\* A point of vegetation density 1.5 gave an error and a point of bank height
\* 60 m a warning; only the second was counted.
C11_Witness ==
    /\ validateOutcome.kind = "returned"
    /\ validateArray.t = "arr"
    /\ Len(validateArray.a) = 2
    /\ Get(validateArray.a[1], "veg_density") = Num(1500)
    /\ validateOutcome.result.errors = <<"Point 0: Vegetation density must be 0-1">>
    /\ validateOutcome.result.warnings = <<"Point 1: Bank height 60m seems unusual">>
    /\ validateOutcome.result.validPoints = Num(1000)

(***************************************************************************)
(* Claims about getAnalysisStatistics                                      *)
(***************************************************************************)
\* The features of the collection that carry a `calculated` result.
Counted(data) ==
    {i \in 1..Len(FeaturesOf(data)) : Truthy(Get(FeaturesOf(data)[i].properties.o, "calculated"))}

\* Those of them whose riskCategory is exactly the category.
CountedAs(data, category) ==
    {i \in Counted(data) :
        Get(FeaturesOf(data)[i].properties.o["calculated"].o, "riskCategory") = Str(category)}

\* totalSegments counts the features with a `calculated` result and every
\* counter the counted features of exactly its category.
CountersExact ==
    /\ statsOutcome.stats.totalSegments = Cardinality(Counted(statsData))
    /\ statsOutcome.stats.highErosion = Cardinality(CountedAs(statsData, "High Erosion"))
    /\ statsOutcome.stats.mediumErosion = Cardinality(CountedAs(statsData, "Medium Erosion"))
    /\ statsOutcome.stats.stable = Cardinality(CountedAs(statsData, "Stable"))
    /\ statsOutcome.stats.mediumDeposition = Cardinality(CountedAs(statsData, "Medium Deposition"))
    /\ statsOutcome.stats.highDeposition = Cardinality(CountedAs(statsData, "High Deposition"))

CounterSum ==
    statsOutcome.stats.highErosion + statsOutcome.stats.mediumErosion + statsOutcome.stats.stable
        + statsOutcome.stats.mediumDeposition + statsOutcome.stats.highDeposition

FiveCategories == {"High Erosion", "Medium Erosion", "Stable", "Medium Deposition", "High Deposition"}

\* C12 as stated: totalSegments is the number of features that carry a
\* `calculated` result, each counter the number of counted features of
\* exactly its category, and the five counters sum to totalSegments.
C12_CountersSumToTotal ==
    statsOutcome.kind = "stats" =>
        /\ CountersExact
        /\ CounterSum = statsOutcome.stats.totalSegments

\* What does hold: totalSegments is the number of features that carry a
\* `calculated` result and each counter the number of counted features of
\* exactly its category; the five counters sum to totalSegments when the
\* riskCategory of every counted feature is one of the five categories.
CountersExactSumOfFive ==
    statsOutcome.kind = "stats" =>
        /\ CountersExact
        /\ (\A i \in Counted(statsData) : \E c \in FiveCategories : i \in CountedAs(statsData, c))
              => CounterSum = statsOutcome.stats.totalSegments

\* The built-in dataset analysed at 300 m3/s: 4 segments, the counters sum to 4.
DefaultDatasetCounted ==
    /\ statsData = AnalysedDefault
    /\ statsOutcome.kind = "stats"
    /\ statsOutcome.stats.totalSegments = 4
    /\ CounterSum = 4

(***************************************************************************)
(* Claims about calculateRiskProfile and calculateSegmentRisk              *)
(***************************************************************************)
\* The collection of the latest run had a `features` array.
HadFeatures == dataBefore.t = "obj" /\ Get(dataBefore.o, "features").t = "arr"

\* The properties of a feature apart from `calculated`.
InputProperties(feature) ==
    [k \in DOMAIN feature.properties.o \ {"calculated"} |-> feature.properties.o[k]]

\* The channel_width of the feature is absent or > 0.
WidthAbsentOrPositive(feature) ==
    \/ "channel_width" \notin DOMAIN feature.properties.o
    \/ feature.properties.o["channel_width"].t = "num" /\ feature.properties.o["channel_width"].n > 0

\* C13: calculateRiskProfile on a collection with a `features` array returns
\* a collection holding the same features, in the same order and number
\* (the features the argument holds afterwards, each with its geometry and
\* its input properties), with every other top-level member preserved, and
\* every feature whose channel_width is absent or > 0 carries a `calculated`
\* block afterwards.
C13_SameFeaturesAllCalculated ==
    (analysis = "returned" /\ HadFeatures) =>
        /\ analysisResults.t = "obj"
        /\ DOMAIN analysisResults.o = DOMAIN dataBefore.o
        /\ \A k \in DOMAIN dataBefore.o \ {"features"} : analysisResults.o[k] = dataBefore.o[k]
        /\ FeaturesOf(analysisResults) = FeaturesOf(geojsonData)
        /\ Len(FeaturesOf(analysisResults)) = Len(FeaturesOf(dataBefore))
        /\ \A i \in 1..Len(FeaturesOf(dataBefore)) :
              /\ FeaturesOf(analysisResults)[i].geometry = FeaturesOf(dataBefore)[i].geometry
              /\ InputProperties(FeaturesOf(analysisResults)[i]) = InputProperties(FeaturesOf(dataBefore)[i])
              /\ WidthAbsentOrPositive(FeaturesOf(dataBefore)[i]) => HasCalculated(FeaturesOf(analysisResults)[i])

\* The built-in dataset was analysed at 300 m3/s: its 4 features carry a
\* `calculated` block and none had one before.
C13_Witness ==
    /\ analysis = "returned"
    /\ discharge = 300
    /\ dataBefore = DEFAULT_GEOJSON
    /\ Len(FeaturesOf(analysisResults)) = 4
    /\ \A i \in 1..4 : HasCalculated(FeaturesOf(analysisResults)[i]) /\ ~HasCalculated(FeaturesOf(dataBefore)[i])

\* The feature without its `calculated` block.
WithoutCalculated(feature) == [feature EXCEPT !.properties = Obj(InputProperties(feature))]

\* C14: a run of calculateRiskProfile that follows a run at the same
\* discharge and params leaves every feature, its `calculated` block
\* included, as the first run left it; the block of every analysed segment
\* is the one computed from its input properties, the discharge and the
\* params alone, whatever `calculated` value it had before.
C14_Idempotent ==
    (analysis = "returned" /\ HadFeatures) =>
        /\ prevDischarge = discharge => FeaturesOf(geojsonData) = FeaturesOf(dataBefore)
        /\ \A i \in 1..Len(FeaturesOf(dataBefore)) :
              WidthAbsentOrPositive(FeaturesOf(dataBefore)[i]) =>
                  FeaturesOf(geojsonData)[i] =
                      calculateSegmentRisk(WithoutCalculated(FeaturesOf(dataBefore)[i]),
                                           discharge, HYDRODYNAMIC_PARAMS).feature

\* The built-in dataset was analysed twice at 300 m3/s; the second run found
\* the blocks of the first and left the same.
C14_Witness ==
    /\ analysis = "returned"
    /\ discharge = 300
    /\ prevDischarge = 300
    /\ Len(FeaturesOf(dataBefore)) = 4
    /\ \A i \in 1..4 : HasCalculated(FeaturesOf(dataBefore)[i])
    /\ geojsonData = dataBefore

\* C15: after calculateRiskProfile returns, every `calculated` block on a
\* feature is the one this run computed from the feature's properties and
\* the given discharge; no block from an earlier run or from the input
\* survives.
C15_NoBlockSurvives ==
    (analysis = "returned" /\ HadFeatures) =>
        \A i \in 1..Len(FeaturesOf(geojsonData)) :
            HasCalculated(FeaturesOf(geojsonData)[i]) =>
                FeaturesOf(geojsonData)[i] =
                    calculateSegmentRisk(WithoutCalculated(FeaturesOf(geojsonData)[i]),
                                         discharge, HYDRODYNAMIC_PARAMS).feature

\* What does hold: a block survives a run only on a segment the run skipped,
\* one whose channel_width is negative, and there it is the block the
\* segment had before the run.
SurvivingBlockOnSkippedSegment ==
    (analysis = "returned" /\ HadFeatures) =>
        \A i \in 1..Len(FeaturesOf(geojsonData)) :
            LET after == FeaturesOf(geojsonData)[i]
            IN  HasCalculated(after) =>
                    \/ after = calculateSegmentRisk(WithoutCalculated(after),
                                                    discharge, HYDRODYNAMIC_PARAMS).feature
                    \/ /\ WidthNotPositive(after)
                       /\ after = FeaturesOf(dataBefore)[i]

\* The run analysed the feature: its channel_width is absent, 0 (replaced by
\* the default) or positive.
Analysed(feature) ==
    \/ "channel_width" \notin DOMAIN feature.properties.o
    \/ feature.properties.o["channel_width"].t = "num" /\ feature.properties.o["channel_width"].n >= 0

\* The value is a number with at most 2 decimal places (numbers are in
\* thousandths).
TwoDecimals(v) == v.t = "num" /\ v.n % 10 = 0

ComputedFields ==
    {"riskIndex", "shearStress", "velocity", "flowDepth", "hydraulicRadius",
     "vegetationResistance", "adjustedCriticalShear"}

NumericFields == ComputedFields \cup {"bankHeight", "vegDensity"}

\* C16: every numeric field of the `calculated` block calculateSegmentRisk
\* attaches (riskIndex, shearStress, velocity, flowDepth, hydraulicRadius,
\* bankHeight, vegDensity, vegetationResistance, adjustedCriticalShear) has
\* at most 2 decimal places.
C16_EveryFieldRounded ==
    (analysis = "returned" /\ HadFeatures) =>
        \A i \in 1..Len(FeaturesOf(geojsonData)) :
            Analysed(FeaturesOf(geojsonData)[i]) =>
                \A k \in NumericFields :
                    TwoDecimals(FeaturesOf(geojsonData)[i].properties.o["calculated"].o[k])

\* What does hold: the seven computed fields have at most 2 decimal places,
\* while bankHeight and vegDensity are the segment's LiDAR properties (or
\* their defaults) as they are.
ComputedFieldsRounded ==
    (analysis = "returned" /\ HadFeatures) =>
        \A i \in 1..Len(FeaturesOf(geojsonData)) :
            LET props == FeaturesOf(geojsonData)[i].properties.o
                block == props["calculated"].o
            IN  Analysed(FeaturesOf(geojsonData)[i]) =>
                    /\ \A k \in ComputedFields : TwoDecimals(block[k])
                    /\ block["bankHeight"] =
                           Or(Get(props, "lidar_avg_bank_height_m"), Num(DefaultBankHeight))
                    /\ block["vegDensity"] =
                           Or(Get(props, "lidar_riparian_veg_density"), Num(DefaultVegDensity))

\* The collection has a `features` array.
HasFeatures(data) == Truthy(data) /\ Truthy(Get(data.o, "features"))

\* No feature of the collection carries a `calculated` result.
NoneCalculated(data) ==
    \A i \in 1..Len(FeaturesOf(data)) :
        ~Truthy(Get(FeaturesOf(data)[i].properties.o, "calculated"))

\* C17: getAnalysisStatistics returns null when its argument is null or has
\* no `features`; for a collection with features of which none carries a
\* `calculated` result it returns totalSegments 0, the five counters 0, the
\* three averages 0, maxRiskIndex -Infinity and minRiskIndex +Infinity.
C17_NullOrInitialStatistics ==
    statsOutcome.kind # "none" =>
        /\ ~HasFeatures(statsData) => statsOutcome = [kind |-> "null"]
        /\ HasFeatures(statsData) => statsOutcome.kind = "stats"
        /\ (HasFeatures(statsData) /\ NoneCalculated(statsData)) =>
              statsOutcome.stats =
                  [totalSegments |-> 0, highErosion |-> 0, mediumErosion |-> 0, stable |-> 0,
                   mediumDeposition |-> 0, highDeposition |-> 0,
                   avgRiskIndex |-> Num(0), avgVelocity |-> Num(0), avgShearStress |-> Num(0),
                   maxRiskIndex |-> NegativeInfinity, minRiskIndex |-> Infinity]

\* The statistics of a collection of two segments, one without a
\* `calculated` member and one whose `calculated` is null, have been taken.
C17_Witness ==
    /\ statsOutcome.kind = "stats"
    /\ Len(FeaturesOf(statsData)) = 2
    /\ "calculated" \notin DOMAIN FeaturesOf(statsData)[1].properties.o
    /\ Get(FeaturesOf(statsData)[2].properties.o, "calculated") = Null
    /\ statsOutcome.stats.totalSegments = 0

\* The latest two calls of calculateFlowDepth had a positive discharge and a
\* positive baseSlope and differed in the k-th argument alone, which grew.
GrewIn(k) ==
    /\ depthResultBefore # -1
    /\ depthArgsBefore[4] > 0
    /\ depthArgs[4] > 0
    /\ SameBut(depthArgsBefore, depthArgs, k)
    /\ depthArgsBefore[k] < depthArgs[k]

\* C18: with discharge, channelWidth, manningN and baseSlope > 0,
\* calculateFlowDepth grows strictly with discharge and with manningN and
\* falls strictly as channelWidth or baseSlope grows.
C18_FlowDepthMonotone ==
    /\ GrewIn(1) => depthResultBefore < depthResult
    /\ GrewIn(3) => depthResultBefore < depthResult
    /\ GrewIn(2) => depthResultBefore > depthResult
    /\ GrewIn(4) => depthResultBefore > depthResult

\* The width alone doubled from 100 m to 200 m, at 300 m3/s, and the depth
\* fell.
C18_Witness ==
    /\ GrewIn(2)
    /\ depthArgsBefore = <<300, 100, 35, 500>>
    /\ depthArgs[2] = 200
    /\ depthResult < depthResultBefore

\* The base_slope property of the feature is present and falsy.
BaseSlopeFalsy(feature) ==
    /\ "base_slope" \in DOMAIN feature.properties.o
    /\ ~Truthy(feature.properties.o["base_slope"])

\* C19: in calculateSegmentRisk a segment whose base_slope is zero or
\* otherwise falsy gets the constant flow depth 1.5.
C19_ZeroSlopeDefaultDepth ==
    (analysis = "returned" /\ HadFeatures) =>
        \A i \in 1..Len(FeaturesOf(geojsonData)) :
            LET after == FeaturesOf(geojsonData)[i]
            IN  (Analysed(after) /\ BaseSlopeFalsy(after)) =>
                    after.properties.o["calculated"].o["flowDepth"] = Num(DefaultFlowDepth)

\* What does hold: such a segment gets the depth of the Manning formula at
\* the default slope 0.0005.
ZeroSlopeDepthAtDefaultSlope ==
    (analysis = "returned" /\ HadFeatures) =>
        \A i \in 1..Len(FeaturesOf(geojsonData)) :
            LET after == FeaturesOf(geojsonData)[i]
                props == after.properties.o
            IN  (Analysed(after) /\ BaseSlopeFalsy(after)) =>
                    props["calculated"].o["flowDepth"] =
                        Num(Round2(calculateFlowDepth(
                            discharge,
                            Or(Get(props, "channel_width"), Num(DefaultChannelWidth)).n,
                            Or(Get(props, "manning_n"), Num(DefaultManningN)).n,
                            DefaultBaseSlope)))

\* r is the floor, at the thousandth, of num / den.
IsQuotient(r, num, den) ==
    /\ BigLeq(BigMul(den, r), num)
    /\ ~BigLeq(BigMul(den, r + 1), num)

\* shearStress / adjustedCriticalShear, in thousandths
RawRatio == (indexArgs[1] * 1000) \div indexArgs[2]

\* bankHeight > 10 and shearStress / adjustedCriticalShear > 1.0
AmplificationDue == indexArgs[3] > 10000 /\ indexArgs[1] > indexArgs[2]

\* C20: calculateRiskIndex returns shearStress / adjustedCriticalShear
\* unchanged when bankHeight <= 10 or the ratio is <= 1.0, and the ratio
\* times (1 + (bankHeight - 10) / 20) exactly when bankHeight > 10 and the
\* ratio is > 1.0; the result is never smaller than the ratio, and a ratio
\* <= 1.0 is returned as it is whatever the bank height.
C20_AmplifiedOnlyAboveOne ==
    indexResult # -1 =>
        /\ ~AmplificationDue => indexResult = RawRatio
        /\ AmplificationDue =>
              IsQuotient(indexResult,
                         BigMul(BigFromInt(indexArgs[1]), 10000 + indexArgs[3]),
                         BigMul(BigFromInt(indexArgs[2]), 20))
        /\ indexResult >= RawRatio
        /\ indexArgs[1] <= indexArgs[2] => indexResult = RawRatio

\* A ratio of 0.8 under a 30 m bank has been returned as 0.8.
C20_Witness ==
    /\ indexArgs = <<2500, 3125, 30000>>
    /\ indexResult = 800

\* A ratio of 2 under a 15 m bank has been returned as 2.5.
AmplifiedReached ==
    /\ indexArgs = <<5000, 2500, 15000>>
    /\ indexResult = 2500

\* The property is present on the feature and is the number 0.
IsZero(feature, name) == Get(feature.properties.o, name) = Num(0)

\* C21: a segment property that is present but zero is treated like an
\* absent one: with lidar_riparian_veg_density = 0 the block has vegDensity
\* 0.5 and vegetationResistance 1.25, and with curvature = 0 the block is the
\* one computed with curvature 1.0.
C21_ZeroTreatedAsAbsent ==
    (analysis = "returned" /\ HadFeatures) =>
        \A i \in 1..Len(FeaturesOf(geojsonData)) :
            LET after == FeaturesOf(geojsonData)[i]
                block == after.properties.o["calculated"].o
            IN  Analysed(after) =>
                    /\ IsZero(after, "lidar_riparian_veg_density") =>
                          /\ block["vegDensity"] = Num(DefaultVegDensity)
                          /\ block["vegetationResistance"] = Num(1250)
                    /\ IsZero(after, "curvature") =>
                          after.properties.o["calculated"] =
                              calculateSegmentRisk(
                                  WithProps(WithoutCalculated(after),
                                            [curvature |-> Num(DefaultCurvature)]),
                                  discharge, HYDRODYNAMIC_PARAMS).feature.properties.o["calculated"]

\* A segment with vegetation density 0 and curvature 0 has been analysed and
\* carries a positive shear stress.
C21_Witness ==
    /\ analysis = "returned"
    /\ Len(FeaturesOf(geojsonData)) >= 1
    /\ IsZero(FeaturesOf(geojsonData)[1], "lidar_riparian_veg_density")
    /\ IsZero(FeaturesOf(geojsonData)[1], "curvature")
    /\ HasCalculated(FeaturesOf(geojsonData)[1])
    /\ FeaturesOf(geojsonData)[1].properties.o["calculated"].o["vegDensity"] = Num(500)
    /\ FeaturesOf(geojsonData)[1].properties.o["calculated"].o["shearStress"].n > 0

\* The properties mergeLidarWithRiver writes.
MergedNames ==
    {"lidar_avg_bank_height_m", "lidar_riparian_veg_density", "lidar_bank_slope",
     "manning_n", "lidar_merged", "lidar_source_id"}

\* The attribute of a LiDAR point and the segment property it is copied to
\* when it is truthy.
CopiedWhenTruthy ==
    {<<"bank_height_m", "lidar_avg_bank_height_m">>,
     <<"bank_slope", "lidar_bank_slope">>,
     <<"roughness_coefficient", "manning_n">>}

\* The member k is the same, present or absent, in the objects a and b.
SameMember(a, b, k) == (k \in DOMAIN a <=> k \in DOMAIN b) /\ Get(a, k) = Get(b, k)

\* C22: mergeLidarWithRiver changes nothing but the six properties
\* lidar_avg_bank_height_m, lidar_riparian_veg_density, lidar_bank_slope,
\* manning_n, lidar_merged and lidar_source_id of matched features; the
\* geometry and every other property stay, and where the nearest point's
\* bank_height_m, bank_slope or roughness_coefficient is absent or zero the
\* segment property keeps the value it had.
C22_OnlyMergedPropertiesChange ==
    mergeError # "none" =>
        /\ Len(FeaturesOf(river)) = Len(FeaturesOf(riverBefore))
        /\ Truthy(riverBefore) =>
              \A k \in (DOMAIN river.o \cup DOMAIN riverBefore.o) \ {"features"} :
                  SameMember(river.o, riverBefore.o, k)
        /\ \A i \in 1..Len(FeaturesOf(riverBefore)) :
              LET before == FeaturesOf(riverBefore)[i]
                  after == FeaturesOf(river)[i]
              IN  /\ after.geometry = before.geometry
                  /\ before.properties.t # "obj" => after = before
                  /\ before.properties.t = "obj" =>
                        /\ after.properties.t = "obj"
                        /\ \A k \in (DOMAIN after.properties.o \cup DOMAIN before.properties.o)
                                        \ MergedNames :
                               SameMember(after.properties.o, before.properties.o, k)
                  /\ (mergeError = "" /\ ClaimCenter(before) = <<>>) => after = before
                  /\ (mergeError = "" /\ ClaimCenter(before) # <<>>
                        /\ ClaimNearest(ClaimCenter(before), lidar.a) # 0) =>
                        \A c \in CopiedWhenTruthy :
                            ~Truthy(Get(lidar.a[ClaimNearest(ClaimCenter(before), lidar.a)], c[1])) =>
                                SameMember(after.properties.o, before.properties.o, c[2])

\* A merge from a point whose bank_height_m is 0 and whose bank_slope is
\* absent left the segment's bank height 8 and bank slope 30 and replaced its
\* source id.
C22_Witness ==
    /\ mergeError = ""
    /\ Len(FeaturesOf(riverBefore)) = 1
    /\ Len(lidar.a) = 1
    /\ Get(lidar.a[1], "bank_height_m") = Num(0)
    /\ "bank_slope" \notin DOMAIN lidar.a[1]
    /\ Get(lidar.a[1], "roughness_coefficient") = Num(40)
    /\ FeaturesOf(riverBefore)[1].properties.t = "obj"
    /\ Get(FeaturesOf(riverBefore)[1].properties.o, "lidar_source_id") = Str("old")
    /\ Get(FeaturesOf(river)[1].properties.o, "lidar_source_id") = Str("s1")
    /\ Get(FeaturesOf(river)[1].properties.o, "lidar_avg_bank_height_m") = Num(8000)
    /\ Get(FeaturesOf(river)[1].properties.o, "lidar_bank_slope") = Num(30000)
    /\ Get(FeaturesOf(river)[1].properties.o, "manning_n") = Num(40)

\* The argument is an empty array or not an array.
EmptyOrNotArray(v) == v.t # "arr" \/ Len(v.a) = 0

\* C23: validateLidarData never throws: for every input it returns a
\* result, and for an empty or non-array input the result has isValid =
\* false and the error 'LiDAR array is empty or invalid'.
C23_NeverThrows ==
    validateOutcome.kind # "none" =>
        /\ validateOutcome.kind = "returned"
        /\ EmptyOrNotArray(validateArray) =>
              /\ validateOutcome.result.isValid = FALSE
              /\ validateOutcome.result.errors = <<"LiDAR array is empty or invalid">>

\* What does hold: the call throws for null and undefined and for nothing
\* else, and every empty or non-array argument it returns for is reported
\* invalid with that one error.
ThrowsOnNullishOnly ==
    validateOutcome.kind # "none" =>
        /\ validateOutcome.kind = "threw" <=> validateArray \in {Null, Undefined}
        /\ (validateOutcome.kind = "returned" /\ EmptyOrNotArray(validateArray)) =>
              /\ validateOutcome.result.isValid = FALSE
              /\ validateOutcome.result.errors = <<"LiDAR array is empty or invalid">>

\* The point passes every per-point check of validateLidarData.
PassesChecks(point) == CoordinatesValid(point) /\ ~Outside(Get(point, "veg_density"), 0, 1000)

\* How many entries of the list are among the given messages.
CountIn(messages, among) == Cardinality({k \in 1..Len(messages) : messages[k] \in among})

\* C24: for a non-empty array validateLidarData returns totalPoints = the
\* array length, validPoints = the number of points passing every per-point
\* check, one errors entry per rejected point plus 'No valid LiDAR points
\* found' iff validPoints = 0, and isValid = true exactly when validPoints
\* >= 1.
C24_CountsAndErrors ==
    (validateOutcome.kind # "none" /\ validateArray.t = "arr" /\ Len(validateArray.a) >= 1) =>
        LET points == validateArray.a
            result == validateOutcome.result
            passing == {i \in 1..Len(points) : PassesChecks(points[i])}
        IN  /\ validateOutcome.kind = "returned"
            /\ result.totalPoints = Num(1000 * Len(points))
            /\ result.validPoints = Num(1000 * Cardinality(passing))
            /\ \A i \in 1..Len(points) :
                  CountIn(result.errors, ErrorsAbout(points[i], i - 1)) =
                      IF i \in passing THEN 0 ELSE 1
            /\ CountIn(result.errors, {"No valid LiDAR points found"}) =
                  IF passing = {} THEN 1 ELSE 0
            /\ Len(result.errors) =
                  Len(points) - Cardinality(passing) + (IF passing = {} THEN 1 ELSE 0)
            /\ result.isValid <=> Cardinality(passing) >= 1

\* Two points, the first rejected and the second valid: isValid is true with
\* one entry in errors.
C24_Witness ==
    /\ validateOutcome.kind = "returned"
    /\ validateArray.t = "arr"
    /\ Len(validateArray.a) = 2
    /\ ~PassesChecks(validateArray.a[1])
    /\ PassesChecks(validateArray.a[2])
    /\ validateOutcome.result.isValid
    /\ Len(validateOutcome.result.errors) = 1

(***************************************************************************)
(* Claims about the application                                            *)
(***************************************************************************)
\* The point of the latest merge a merged feature names as its source.
SourcePoints(feature) ==
    {i \in 1..Len(appMergedFrom.a) :
        Get(appMergedFrom.a[i], "segment_id") = Get(feature.properties.o, "lidar_source_id")}

\* The features of currentGeoJSON a merge has written to.
MergedFeatures ==
    {i \in 1..Len(FeaturesOf(appData.current.data)) :
        /\ FeaturesOf(appData.current.data)[i].properties.t = "obj"
        /\ Get(FeaturesOf(appData.current.data)[i].properties.o, "lidar_merged") = Bool(TRUE)}

\* C25 as stated: handleMergeLidar calls mergeLidarWithRiver only with
\* points that all pass the per-point checks of validateLidarData, and no
\* merged segment of currentGeoJSON has its lidar_source_id from a point
\* that validation reports in errors.
C25_MergesOnlyValidPoints ==
    appMergedFrom # Null =>
        /\ \A i \in 1..Len(appMergedFrom.a) : PassesChecks(appMergedFrom.a[i])
        /\ \A f \in MergedFeatures :
              \A i \in SourcePoints(FeaturesOf(appData.current.data)[f]) : PassesChecks(appMergedFrom.a[i])

\* What does hold: the array of every merge has at least one point that
\* passes the checks (validation returned isValid = true for it).
MergesWhenSomePointValid ==
    appMergedFrom # Null =>
        /\ validateLidarData(appMergedFrom).kind = "returned"
        /\ validateLidarData(appMergedFrom).result.isValid
        /\ \E i \in 1..Len(appMergedFrom.a) : PassesChecks(appMergedFrom.a[i])

(***************************************************************************)
(* Claims about a mergeLidarWithRiver call that throws                     *)
(***************************************************************************)
\* The latest call threw.
MergeThrew == mergeError \notin {"none", ""}

\* C26 as stated: whenever mergeLidarWithRiver throws, no feature of the
\* river collection has been modified.
C26_AllOrNothing == MergeThrew => river = riverBefore

\* What does hold: a call that throws at the argument checks has modified
\* nothing, and a call that throws while processing a feature leaves that
\* feature and the ones after it as they were.
ArgumentChecksLeaveUntouched ==
    /\ mergeError \in {"Invalid river GeoJSON", "Invalid LiDAR data array"} => river = riverBefore
    /\ mergeError = "TypeError" =>
          \E i \in 1..Len(FeaturesOf(riverBefore)) :
              /\ MergeFeature(FeaturesOf(riverBefore)[i], lidar.a).threw
              /\ \A j \in i..Len(FeaturesOf(riverBefore)) :
                    FeaturesOf(river)[j] = FeaturesOf(riverBefore)[j]

(***************************************************************************)
(* Claims about the map style of a segment                                 *)
(***************************************************************************)
\* The features of the displayed collection that carry a `calculated` block.
AnalysedSegments ==
    {i \in 1..Len(styleLayer) : HasCalculated(FeaturesOf(styleData)[i])}

StoredBlock(i) == FeaturesOf(styleData)[i].properties.o["calculated"].o

\* C27 as stated: the style of every analysed segment is the style of its
\* stored riskCategory.
C27_StyleOfStoredCategory ==
    \A i \in AnalysedSegments : styleLayer[i] = RISK_CATEGORIES[StoredBlock(i)["riskCategory"].s]

\* The values of the stored riskIndex at which the style and the category
\* can part: 0 (replaced by 1.0) and the four thresholds.
StyleThresholds == {0, 600, 900, 1100, 1500}

\* What does hold: the style is that of the stored riskCategory whenever
\* the stored riskIndex is neither 0 nor one of the thresholds.
StyleMatchesOffThresholds ==
    \A i \in AnalysedSegments :
        StoredBlock(i)["riskIndex"].n \notin StyleThresholds =>
            styleLayer[i] = RISK_CATEGORIES[StoredBlock(i)["riskCategory"].s]

(***************************************************************************)
(* Claims about the application: reset                                     *)
(***************************************************************************)
\* C28: no handler writes to the DEFAULT_GEOJSON constant, and right after
\* handleClearData lidarData is null and currentGeoJSON is the built-in
\* dataset as shipped with the `calculated` blocks of an analysis at the
\* default discharge and nothing else: its segments are those of
\* DEFAULT_GEOJSON, with no lidar_merged or lidar_source_id.
C28_ResetRestoresDefault ==
    /\ appData.default = DEFAULT_GEOJSON
    /\ appCleared =>
          /\ appLidar = Null
          /\ appDischarge = APP_CONFIG.defaultDischarge
          /\ appData.current.data = AnalysedDefault
          /\ appData.results.data = AnalysedDefault
          /\ \A i \in 1..Len(FeaturesOf(appData.current.data)) :
                /\ InputProperties(FeaturesOf(appData.current.data)[i])
                      = FeaturesOf(DEFAULT_GEOJSON)[i].properties.o
                /\ FeaturesOf(appData.current.data)[i].geometry = FeaturesOf(DEFAULT_GEOJSON)[i].geometry

\* The last event of a session is a reset, after a merge into the built-in
\* dataset.
C28_Witness ==
    /\ appCleared
    /\ appMergedFrom # Null
    /\ appEvents = MaxEvents
    /\ appData.current.origin = 0

(***************************************************************************)
(* Claims about the application: results and uploads                       *)
(***************************************************************************)
\* C29 as stated: whenever analysisResults is non-null its features are the
\* feature objects of currentGeoJSON, and no export has written results of
\* another collection than the current one.
C29_ResultsOfCurrentData ==
    /\ appData.results # NoData =>
          /\ appData.results.id = appData.current.id
          /\ FeaturesOf(appData.results.data) = FeaturesOf(appData.current.data)
    /\ appExported # "stale"

\* What does hold: analysisResults holds the features of another collection
\* only while currentGeoJSON has a feature the analysis throws on.
StaleOnlyAfterFailedAnalysis ==
    (appData.results # NoData /\ appData.results.id # appData.current.id) =>
        \E i \in 1..Len(FeaturesOf(appData.current.data)) :
            FeaturesOf(appData.current.data)[i].properties.t # "obj"

\* Both uploads were started, both files were accepted, and currentGeoJSON
\* is an uploaded collection.
BothUploadsLoaded ==
    /\ appStarted = 2
    /\ appPending = <<>>
    /\ appAccepted = {1, 2}
    /\ appData.current.origin # 0

\* C30 as stated: once both reads have completed, currentGeoJSON and the
\* analysis are those of the upload started later.
C30_LaterUploadWins ==
    BothUploadsLoaded =>
        /\ appData.current.origin = 2
        /\ appData.results.origin # 1

\* What does hold: a read that completes replaces currentGeoJSON when its
\* file is accepted, whatever was started or loaded before.
LastCompletedUploadWins ==
    [][\A k \in DOMAIN appPending :
          (/\ appPending' = SubSeq(appPending, 1, k - 1) \o SubSeq(appPending, k + 1, Len(appPending))
           /\ Accepted(appPending[k].file))
              => appData'.current.origin = appPending[k].upload]_vars

====
